---- MODULE Spec2Model ----
(***************************************************************************)
(* A model of the AI-BOM analyzer: the detection pipeline of               *)
(* analyzeRepository (src/js/analyzer.js), the rate-limited code-search    *)
(* unit (codeDetector / searchCodeViaAPI), the cached file-content         *)
(* accessor (createFileContentFetcher) and the finding reconciler          *)
(* (mergeDependencyAndCodeFindings).                                       *)
(***************************************************************************)
EXTENDS Integers, Sequences, FiniteSets, TLC

(***************************************************************************)
(* Strings.  JavaScript strings are TLA+ strings; toLowerCase, includes    *)
(* and replace are computed character by character.                        *)
(***************************************************************************)
UpperCase == "ABCDEFGHIJKLMNOPQRSTUVWXYZ"

LowerCase == "abcdefghijklmnopqrstuvwxyz"

Digits == "0123456789"

RECURSIVE IndexIn(_, _, _)
\* position of the one-character string c in s at or after i, 0 when absent
IndexIn(c, s, i) ==
    IF i > Len(s) THEN 0
    ELSE IF SubSeq(s, i, i) = c THEN i
    ELSE IndexIn(c, s, i + 1)

lowerChar(c) ==
    LET k == IndexIn(c, UpperCase, 1)
    IN  IF k = 0 THEN c ELSE SubSeq(LowerCase, k, k)

RECURSIVE toLowerCase(_)
\* String.prototype.toLowerCase
toLowerCase(s) ==
    IF Len(s) = 0 THEN ""
    ELSE lowerChar(SubSeq(s, 1, 1)) \o toLowerCase(SubSeq(s, 2, Len(s)))

\* String.prototype.includes
includes(s, t) ==
    \E i \in 1..(Len(s) - Len(t) + 1) : SubSeq(s, i, i + Len(t) - 1) = t

isAlnum(c) ==
    \/ IndexIn(c, UpperCase, 1) # 0
    \/ IndexIn(c, LowerCase, 1) # 0
    \/ IndexIn(c, Digits, 1) # 0

RECURSIVE sanitizeName(_)
\* name.replace(/[^a-zA-Z0-9]/g, '-')
sanitizeName(s) ==
    IF Len(s) = 0 THEN ""
    ELSE (IF isAlnum(SubSeq(s, 1, 1)) THEN SubSeq(s, 1, 1) ELSE "-")
         \o sanitizeName(SubSeq(s, 2, Len(s)))

RECURSIVE replaceSlashes(_)
\* path.replace(/\//g, '-')
replaceSlashes(s) ==
    IF Len(s) = 0 THEN ""
    ELSE (IF SubSeq(s, 1, 1) = "/" THEN "-" ELSE SubSeq(s, 1, 1))
         \o replaceSlashes(SubSeq(s, 2, Len(s)))

RECURSIVE trimStart(_)
trimStart(s) ==
    IF Len(s) > 0 /\ SubSeq(s, 1, 1) = " " THEN trimStart(SubSeq(s, 2, Len(s)))
    ELSE s

RECURSIVE trimEnd(_)
trimEnd(s) ==
    IF Len(s) > 0 /\ SubSeq(s, Len(s), Len(s)) = " "
    THEN trimEnd(SubSeq(s, 1, Len(s) - 1))
    ELSE s

\* String.prototype.trim, for lines indented with blanks
trim(s) == trimEnd(trimStart(s))

(***************************************************************************)
(* Sequence helpers.                                                       *)
(***************************************************************************)
Range(s) == {s[i] : i \in 1..Len(s)}

RECURSIVE FlatMap(_, _)
\* Array.prototype.flatMap over a sequence, Op applied to each element
FlatMap(Op(_), s) ==
    IF s = <<>> THEN <<>> ELSE Op(Head(s)) \o FlatMap(Op, Tail(s))

RECURSIVE Map(_, _)
\* Array.prototype.map over a sequence
Map(Op(_), s) ==
    IF s = <<>> THEN <<>> ELSE <<Op(Head(s))>> \o Map(Op, Tail(s))

RECURSIVE Tabulate(_, _)
\* the function on the finite set S with value Op(x) at x, built entry by entry
Tabulate(Op(_), S) ==
    IF S = {} THEN <<>>
    ELSE LET x == CHOOSE y \in S : TRUE
         IN  (x :> Op(x)) @@ Tabulate(Op, S \ {x})

RECURSIVE SumWeights(_)
\* calculateScore: findings.reduce((sum, f) => sum + f.weight, 0)
SumWeights(fs) ==
    IF fs = <<>> THEN 0 ELSE Head(fs).weight + SumWeights(Tail(fs))

calculateScore(findings) == SumWeights(findings)

(***************************************************************************)
(* Findings.  Optional payloads are sequences of length 0 or 1.  The       *)
(* description is kept for the findings whose description the program      *)
(* reads (dependency findings); it is "" for the others.                   *)
(***************************************************************************)
\* an evidence entry; line 0 stands for an absent line number
Ev(file, line, snippet) == [file |-> file, line |-> line, snippet |-> snippet]

Finding(id, title, category, severity, weight, evidence, depInfo) ==
    [id |-> id, title |-> title, category |-> category, severity |-> severity,
     weight |-> weight, description |-> "", evidence |-> evidence,
     dependencyInfo |-> depInfo, codeUsage |-> <<>>, modelInfo |-> <<>>]

(***************************************************************************)
(* mergeDependencyAndCodeFindings (src/js/analyzer.js).                    *)
(***************************************************************************)
\* the early return of the second pass: compatible endpoints are skipped
skipsCompatible(title) ==
    includes(title, "openai-compatible") \/ includes(title, "compatible")

\* the keyword table of the second pass, title and dependency name lowercased
keywordMatches(title, depNameLower) ==
    \/ includes(title, "langchain") /\ includes(depNameLower, "langchain")
    \/ /\ includes(title, "openai")
       /\ ~includes(title, "compatible")
       /\ includes(depNameLower, "openai")
    \/ includes(title, "anthropic") /\ includes(depNameLower, "anthropic")
    \/ includes(title, "google") /\ includes(depNameLower, "google")
    \/ includes(title, "cohere") /\ includes(depNameLower, "cohere")
    \/ includes(title, "mistral") /\ includes(depNameLower, "mistral")
    \/ /\ includes(title, "huggingface")
       /\ \/ includes(depNameLower, "transformers")
          \/ includes(depNameLower, "huggingface")
    \/ includes(title, "litellm") /\ includes(depNameLower, "litellm")

\* the providers named by the search plans and the scan tables of the model
Providers ==
    {"OpenAI", "Anthropic", "LangChain", "LangChain-OpenAI", "LangChain-Google",
     "LangChain-Anthropic", "Google", "Cohere", "Mistral", "HuggingFace",
     "OpenAI-compatible"}

\* the titles codeDetector gives its findings
CodeTitles ==
    {p \o " SDK Usage Detected (via Search API)" : p \in Providers}
    \cup {p \o " SDK Usage Detected" : p \in Providers}
    \cup {p \o " API Endpoint Detected" : p \in Providers}

\* the package names of the dependency findings of the model
DepNames == {"openai", "langchain-openai", "litellm"}

lowerName == Tabulate(toLowerCase, DepNames)

\* the second pass with the compatible exclusions forgotten
titleMatchesDepNoExclusion(title, depPkgName) ==
    LET t == toLowerCase(title)
        d == toLowerCase(depPkgName)
    IN  \/ includes(t, "langchain") /\ includes(d, "langchain")
        \/ includes(t, "openai") /\ includes(d, "openai")
        \/ includes(t, "anthropic") /\ includes(d, "anthropic")
        \/ includes(t, "google") /\ includes(d, "google")
        \/ includes(t, "cohere") /\ includes(d, "cohere")
        \/ includes(t, "mistral") /\ includes(d, "mistral")
        \/ /\ includes(t, "huggingface")
           /\ includes(d, "transformers") \/ includes(d, "huggingface")
        \/ includes(t, "litellm") /\ includes(d, "litellm")

\* second pass: does a code finding with this title match the dependency
titleMatchesDep(title, depPkgName) ==
    /\ ~skipsCompatible(toLowerCase(title))
    /\ keywordMatches(toLowerCase(title), toLowerCase(depPkgName))

\* titleMatchesDep on the titles and names of the model, computed once
matchTable ==
    LET Row(t) == LET Cell(d) == titleMatchesDep(t, d)
                  IN  Tabulate(Cell, DepNames)
    IN  Tabulate(Row, CodeTitles)

\* second pass: does this code finding go into codeMap[depPkgName]
codeMatchesDep(finding, depPkgName) ==
    /\ finding.category = "code"
    /\ finding.title # ""
    /\ matchTable[finding.title][depPkgName]

isDependencyFinding(finding) ==
    finding.category = "dependencies" /\ finding.dependencyInfo # <<>>

RECURSIVE mapSet(_, _, _)
\* Map.prototype.set on a map kept as a sequence of entries in insertion
\* order: an existing key keeps its position and takes the new value
mapSet(m, key, val) ==
    IF m = <<>> THEN <<[key |-> key, val |-> val]>>
    ELSE IF Head(m).key = key THEN <<[key |-> key, val |-> val]>> \o Tail(m)
    ELSE <<Head(m)>> \o mapSet(Tail(m), key, val)

RECURSIVE buildDependencyMap(_, _)
\* first pass: package name (lowercased) -> dependency finding
buildDependencyMap(findings, m) ==
    IF findings = <<>> THEN m
    ELSE LET f == Head(findings)
         IN  IF isDependencyFinding(f)
             THEN buildDependencyMap(Tail(findings),
                      mapSet(m, lowerName[f.dependencyInfo[1].name], f))
             ELSE buildDependencyMap(Tail(findings), m)

\* codeMap.get(pkgName) || []: the matching code findings in input order
codeFindingsFor(findings, pkgName) ==
    LET Test(f) == codeMatchesDep(f, pkgName)
    IN  SelectSeq(findings, Test)

findingEvidence(cf) == cf.evidence

evidenceFile(e) == <<e.file>>

\* the unified finding with the code evidence put before the dependency's
mergedFindingCodeFirst(depFinding, codeFindings) ==
    [id |-> depFinding.id,
     title |-> depFinding.dependencyInfo[1].name \o " - Usage Detected",
     category |-> "dependencies",
     severity |-> "high",
     weight |-> depFinding.weight,
     description |-> depFinding.dependencyInfo[1].name \o " ("
                         \o depFinding.dependencyInfo[1].version
                         \o ") is installed and used in code",
     evidence |-> FlatMap(findingEvidence, codeFindings) \o depFinding.evidence,
     dependencyInfo |-> depFinding.dependencyInfo,
     codeUsage |-> <<[files |-> FlatMap(evidenceFile,
                                   FlatMap(findingEvidence, codeFindings)),
                      locations |-> FlatMap(findingEvidence, codeFindings)]>>,
     modelInfo |-> <<>>]

\* the unified finding built for a dependency with code usage
mergedFinding(depFinding, codeFindings) ==
    [id |-> depFinding.id,
     title |-> depFinding.dependencyInfo[1].name \o " - Usage Detected",
     category |-> "dependencies",
     severity |-> "high",
     weight |-> depFinding.weight,
     description |-> depFinding.dependencyInfo[1].name \o " ("
                         \o depFinding.dependencyInfo[1].version
                         \o ") is installed and used in code",
     evidence |-> depFinding.evidence \o FlatMap(findingEvidence, codeFindings),
     dependencyInfo |-> depFinding.dependencyInfo,
     codeUsage |-> <<[files |-> FlatMap(evidenceFile,
                                   FlatMap(findingEvidence, codeFindings)),
                      locations |-> FlatMap(findingEvidence, codeFindings)]>>,
     modelInfo |-> <<>>]

\* the merge loop over dependencyMap: one output finding per map entry
mergeLoop(findings, depMap) ==
    LET Entry(e) ==
            LET cfs == codeFindingsFor(findings, e.key)
            IN  IF Len(cfs) > 0 THEN mergedFinding(e.val, cfs) ELSE e.val
    IN  Map(Entry, depMap)

\* processedCode: the ids of the code findings merged into some dependency
processedCode(findings, depMap) ==
    {f.id : f \in {g \in Range(findings) :
                     \E k \in 1..Len(depMap) : codeMatchesDep(g, depMap[k].key)}}

\* the third pass keeping every finding that is not a code finding
passThroughAll(findings, depMap) ==
    LET done == processedCode(findings, depMap)
        Test(f) == \/ f.category = "code" /\ f.id \notin done
                   \/ f.category # "code"
    IN  SelectSeq(findings, Test)

\* third pass: unmatched code findings and findings of other categories
passThrough(findings, depMap) ==
    LET done == processedCode(findings, depMap)
        Test(f) == \/ f.category = "code" /\ f.id \notin done
                   \/ f.category # "dependencies" /\ f.category # "code"
    IN  SelectSeq(findings, Test)

mergeDependencyAndCodeFindings(findings) ==
    LET depMap == buildDependencyMap(findings, <<>>)
    IN  mergeLoop(findings, depMap) \o passThrough(findings, depMap)

(***************************************************************************)
(* Bounds of the model.                                                    *)
(***************************************************************************)
\* failures injected in one run: unit exceptions, failed search responses,
\* failed file responses (rate-limit answers are not counted)
MaxFaults == 1

\* length of the finding lists handed to the reconciler on its own
MaxMergeInput == 3

\* number of findings selected for the BOM generators
MaxSelected == 4

(***************************************************************************)
(* The analysed repository: its file tree, the parsed content of its       *)
(* files, and what the dependency-graph service knows about it.            *)
(***************************************************************************)
manifestFiles == <<"requirements.txt", "api/requirements.txt">>

ciFiles == <<".github/workflows/ci.yml">>

codeFiles == <<"app.py">>

\* the number of source files the scan of codeDetector is cut to
ScanLimit == 200

Paths == Range(manifestFiles) \cup Range(ciFiles) \cup Range(codeFiles)

\* the lines of a source file
fileLines(path) ==
    IF path = "app.py"
    THEN <<"from openai import AsyncOpenAI",
           "URL = 'https://api.openai.com/v1/chat/completions'">>
    ELSE <<>>

\* findInRequirements: the LLM dependencies a manifest declares
foundDeps(path) ==
    IF path \in Range(manifestFiles)
    THEN <<[name |-> "openai", version |-> "1.0", line |-> 1,
            snippet |-> "openai==1.0"]>>
    ELSE <<>>

\* the descriptions of the CI_PATTERNS entries that match a workflow file
matchingCiPatterns(path) ==
    IF path \in Range(ciFiles)
    THEN <<"ChatGPT Action", "GitHub Copilot CLI">>
    ELSE <<>>

\* the package lists the dependency-graph service may report (after the
\* allow-list filter of extractLLMDependenciesFromSBOM); <<>> stands for an
\* unavailable graph or one without LLM packages
SbomAnswers ==
    {<<>>,
     <<[name |-> "openai", version |-> "1.0", ecosystem |-> "python"]>>,
     <<[name |-> "langchain-openai", version |-> "0.1", ecosystem |-> "python"],
       [name |-> "openai", version |-> "1.0", ecosystem |-> "python"]>>}

(***************************************************************************)
(* Time.  Points in time are kept relative to the present, in              *)
(* milliseconds: 0 is "now or earlier", NoReset is an absent value.  When  *)
(* the program sleeps for w, every stored point in time moves w closer.    *)
(***************************************************************************)
NoReset == -1

\* the X-RateLimit-Reset values the services may report, relative to now
ResetAnswers == {NoReset, 30000, 120000}

Max(a, b) == IF a > b THEN a ELSE b

elapse(t, w) == IF t = NoReset THEN NoReset ELSE Max(0, t - w)

\* the orchestrator waits only for resets less than this far away
ResumeWaitCap == 120000

\* the file accessor retries only for resets less than this far away
FetchWaitCap == 60000

(***************************************************************************)
(* The search plan of searchCodeViaAPI.                                    *)
(***************************************************************************)
\* a planned query; the extension filter appended to every query text is the
\* same in all queries of a run and is left out
Q(term, provider) == [query |-> term, provider |-> provider]

someDep(depNames, Test(_)) == \E k \in 1..Len(depNames) : Test(depNames[k])

smartSearches(detectedDependencies) ==
    LET LowerName(d) == toLowerCase(d.name)
        depNames == Map(LowerName, detectedDependencies)
        IsOpenAI(n) == includes(n, "openai") /\ ~includes(n, "langchain")
        IsAnthropic(n) == includes(n, "anthropic")
        IsLangChain(n) == includes(n, "langchain")
        IsLcOpenAI(n) ==
            includes(n, "langchain-openai") \/ includes(n, "langchain_openai")
        IsLcGoogle(n) ==
            includes(n, "langchain-google") \/ includes(n, "langchain_google")
        IsLcAnthropic(n) ==
            includes(n, "langchain-anthropic") \/ includes(n, "langchain_anthropic")
        IsGoogle(n) ==
            includes(n, "google") \/ includes(n, "generativeai") \/ includes(n, "gemini")
        IsCohere(n) == includes(n, "cohere")
        IsMistral(n) == includes(n, "mistral")
        IsHF(n) ==
            includes(n, "transformers") \/ includes(n, "diffusers") \/ includes(n, "huggingface")
        openai ==
            IF someDep(depNames, IsOpenAI)
            THEN <<Q("from openai import", "OpenAI"),
                   Q("openai.chat.completions", "OpenAI"),
                   Q("api.openai.com", "OpenAI")>>
            ELSE <<>>
        anthropic ==
            IF someDep(depNames, IsAnthropic)
            THEN <<Q("from anthropic import", "Anthropic"),
                   Q("@anthropic-ai/sdk", "Anthropic"),
                   Q("api.anthropic.com", "Anthropic")>>
            ELSE <<>>
        langchain ==
            IF someDep(depNames, IsLangChain)
            THEN <<Q("from langchain", "LangChain")>>
                 \o (IF someDep(depNames, IsLcOpenAI)
                     THEN <<Q("ChatOpenAI", "LangChain-OpenAI")>> ELSE <<>>)
                 \o (IF someDep(depNames, IsLcGoogle)
                     THEN <<Q("ChatGoogleGenerativeAI", "LangChain-Google")>> ELSE <<>>)
                 \o (IF someDep(depNames, IsLcAnthropic)
                     THEN <<Q("ChatAnthropic", "LangChain-Anthropic")>> ELSE <<>>)
            ELSE <<>>
        google ==
            IF someDep(depNames, IsGoogle)
            THEN <<Q("google.generativeai", "Google"), Q("gemini", "Google")>>
            ELSE <<>>
        cohere ==
            IF someDep(depNames, IsCohere)
            THEN <<Q("from cohere import", "Cohere")>> ELSE <<>>
        mistral ==
            IF someDep(depNames, IsMistral)
            THEN <<Q("from mistralai import", "Mistral")>> ELSE <<>>
        hf ==
            IF someDep(depNames, IsHF)
            THEN <<Q("from transformers import", "HuggingFace"),
                   Q("AutoModel", "HuggingFace")>>
            ELSE <<>>
        all == openai \o anthropic \o langchain \o google \o cohere \o mistral
               \o hf \o <<Q("/v1/chat/completions", "OpenAI-compatible")>>
    IN  IF Len(all) > 10 THEN SubSeq(all, 1, 10) ELSE all

fallbackSearches ==
    <<Q("from openai import", "OpenAI"),
      Q("openai.chat.completions", "OpenAI"),
      Q("from anthropic import", "Anthropic"),
      Q("@anthropic-ai/sdk", "Anthropic"),
      Q("from langchain", "LangChain"),
      Q("ChatOpenAI", "OpenAI"),
      Q("google.generativeai", "Google"),
      Q("api.openai.com", "OpenAI"),
      Q("api.anthropic.com", "Anthropic"),
      Q("/v1/chat/completions", "OpenAI-compatible")>>

\* the smart plans of the dependency lists of this model, computed once
smartPlan == Tabulate(smartSearches, SbomAnswers)

\* searches: smart mode when the dependency graph gave dependencies
buildSearches(sbomAvail, deps) ==
    IF sbomAvail /\ Len(deps) > 0 THEN smartPlan[deps] ELSE fallbackSearches

\* every query text a plan of this model can hold
Queries ==
    UNION {{p[k].query : k \in 1..Len(p)} :
              p \in {fallbackSearches} \cup {smartPlan[a] : a \in SbomAnswers}}

(***************************************************************************)
(* The detection units registered by analyzeRepository, in their order,    *)
(* each with its capability flags.                                         *)
(***************************************************************************)
D(name, flags) == [name |-> name, flags |-> flags]

\* the registration with the code unit put before the dependency unit
detectorsCodeFirst ==
    <<D("Code", {"canResume", "needsDependencies"}),
      D("Dependencies", {}),
      D("Metadata", {}),
      D("AI Models", {"needsAIFiles"}),
      D("Configuration", {}),
      D("CI/CD", {}),
      D("Model Files", {}),
      D("Prompts", {}),
      D("Hardware", {"needsAllFindings"}),
      D("Infrastructure", {"needsAllFindings"}),
      D("Documentation", {"isParser"}),
      D("Risk Assessment", {"needsAllFindings", "needsParsedDocs"})>>

\* the registration of analyzeRepository
detectors ==
    <<D("Dependencies", {}),
      D("Code", {"canResume", "needsDependencies"}),
      D("Metadata", {}),
      D("AI Models", {"needsAIFiles"}),
      D("Configuration", {}),
      D("CI/CD", {}),
      D("Model Files", {}),
      D("Prompts", {}),
      D("Hardware", {"needsAllFindings"}),
      D("Infrastructure", {"needsAllFindings"}),
      D("Documentation", {"isParser"}),
      D("Risk Assessment", {"needsAllFindings", "needsParsedDocs"})>>

\* the fields of detectorInput
baseInput == {"repoMeta", "tree", "getFileContent", "owner", "repo", "token"}

\* the fields of the input built for a unit from its capability flags
unitInput(detector) ==
    baseInput
    \cup (IF "needsAIFiles" \in detector.flags
          THEN {"aiFilesFound", "allFindings"} ELSE {})
    \cup (IF "needsDependencies" \in detector.flags
          THEN {"sbomAvailable", "detectedDependencies"} ELSE {})
    \cup (IF "needsAllFindings" \in detector.flags THEN {"allFindings"} ELSE {})
    \cup (IF "needsParsedDocs" \in detector.flags THEN {"parsedDocs"} ELSE {})

\* no unit has been invoked yet
NoInput == [unit |-> "", resumed |-> FALSE, fields |-> {}]

\* the input of the invocation of a unit in the main pass
mainInput(detector) ==
    [unit |-> detector.name, resumed |-> FALSE, fields |-> unitInput(detector)]

\* the input of the resumption: detectorInput and the resume state
resumedInput ==
    [unit |-> "Code", resumed |-> TRUE,
     fields |-> baseInput \cup {"resumeState"}]

\* the units modelled step by step; the others are modelled by their result
SteppedUnits == {"Dependencies", "Code", "CI/CD"}

(***************************************************************************)
(* Results of the units that are modelled by their result only.            *)
(***************************************************************************)
\* the modelInfo payload; "" stands for an absent modelType or
\* detectionSource, <<>> for absent relatedModels.  Registry details
\* (huggingface) are absent in every finding of the model.
ModelInfo(provider, modelName, modelType, relatedModels, detectionSource) ==
    [provider |-> provider, modelName |-> modelName, modelType |-> modelType,
     relatedModels |-> relatedModels, detectionSource |-> detectionSource]

configFinding ==
    [Finding("config-model-OpenAI-gpt-4o",
             "OpenAI Model in Configuration: gpt-4o", "config", "medium", 4,
             <<Ev("config.yml", 3, "model: gpt-4o")>>, <<>>)
        EXCEPT !.modelInfo = <<ModelInfo("OpenAI", "gpt-4o", "", <<>>, "")>>]

riskFinding ==
    Finding("risk-limitations-documented", "Limitations Documented",
            "governance", "info", 0,
            <<Ev("README.md", 0, "Known limitations")>>, <<>>)

\* the findings a unit returns for the analysed repository
unitFindings(name) ==
    IF name = "Configuration" THEN <<configFinding>>
    ELSE IF name = "Risk Assessment" THEN <<riskFinding>>
    ELSE <<>>

(***************************************************************************)
(* Findings of the dependency, CI and code units.                          *)
(***************************************************************************)
\* dependenciesDetector: the finding pushed for one dependency
dependencyFinding(dep, ecosystem, evidence, source) ==
    [Finding("dep-" \o ecosystem \o "-" \o sanitizeName(dep.name),
             "Dependency: " \o dep.name, "dependencies", "high", 5,
             <<evidence>>,
             <<[name |-> dep.name, version |-> dep.version,
                ecosystem |-> ecosystem, source |-> source]>>)
        EXCEPT !.description = "LLM-related dependency: " \o dep.name
                                   \o " (version: " \o dep.version \o ")"]

sbomFindingsOf(llmDeps) ==
    LET Pushed(dep) ==
            dependencyFinding(dep, dep.ecosystem,
                Ev("GitHub Dependency Graph (SBOM)", 0,
                   "SPDX Package: " \o dep.name \o "@" \o dep.version),
                "github-sbom-api")
    IN  Map(Pushed, llmDeps)

\* the same, computed once per answer of the dependency-graph service
sbomFindingsTable == Tabulate(sbomFindingsOf, SbomAnswers)

sbomFindings(llmDeps) == sbomFindingsTable[llmDeps]

\* detectEcosystem: the ecosystem of a manifest path, "" for null
detectEcosystem(path) ==
    IF includes(path, "package.json") THEN "node"
    ELSE IF includes(path, "requirements.txt") THEN "python"
    ELSE ""

manifestFindingsOf(path) ==
    LET Pushed(dep) ==
            dependencyFinding(dep, detectEcosystem(path),
                              Ev(path, dep.line, dep.snippet), "manual-parsing")
    IN  Map(Pushed, foundDeps(path))

manifestFindingsTable == Tabulate(manifestFindingsOf, Range(manifestFiles))

manifestFindings(path) == manifestFindingsTable[path]

\* ciDetector: one finding per matching pattern, the id built from the path
ciFindingsOf(path) ==
    LET Pushed(description) ==
            Finding("ci-action-" \o replaceSlashes(path),
                    "AI Tool in CI/CD: " \o description, "ci", "medium", 4,
                    <<Ev(path, 0, "AI tool detected in workflow")>>, <<>>)
    IN  Map(Pushed, matchingCiPatterns(path))

ciFindingsTable == Tabulate(ciFindingsOf, Range(ciFiles))

ciFindings(path) == ciFindingsTable[path]

\* the first line of a file that contains the text, 0 when none does
RECURSIVE lineWith(_, _, _)
lineWith(lines, text, k) ==
    IF k > Len(lines) THEN 0
    ELSE IF includes(toLowerCase(lines[k]), toLowerCase(text)) THEN k
    ELSE lineWith(lines, text, k + 1)

\* codeDetector, file scanning: the findings for one scanned source file
scanFindingsOf(path) ==
    LET lines == fileLines(path)
        sdk == lineWith(lines, "from openai import", 1)
        api == lineWith(lines, "api.openai.com", 1)
        compat == lineWith(lines, "/v1/chat/completions", 1)
    IN  (IF sdk # 0
         THEN <<Finding("code-sdk-OpenAI-python", "OpenAI SDK Usage Detected",
                        "code", "high", 5, <<Ev(path, 0, lines[sdk])>>, <<>>)>>
         ELSE <<>>)
        \o (IF api # 0
            THEN <<Finding("code-api-api-OpenAI", "OpenAI API Endpoint Detected",
                           "code", "medium", 4, <<Ev(path, 0, lines[api])>>, <<>>)>>
            ELSE <<>>)
        \o (IF compat # 0
            THEN <<Finding("code-api-api-OpenAI-compatible",
                           "OpenAI-compatible API Endpoint Detected",
                           "code", "medium", 3, <<Ev(path, 0, lines[compat])>>, <<>>)>>
            ELSE <<>>)

scanFindingsTable == Tabulate(scanFindingsOf, Range(codeFiles))

scanFindings(path) == scanFindingsTable[path]

\* the code-search service: the items it returns for a query on this
\* repository, each with the snippet searchCodeInRepo extracts
RECURSIVE searchHits(_, _)
\* the files from the k-th on that contain the query, each with its line
searchHits(query, k) ==
    IF k > Len(codeFiles) THEN <<>>
    ELSE LET lines == fileLines(codeFiles[k])
             n == lineWith(lines, query, 1)
         IN  (IF n # 0
              THEN <<[path |-> codeFiles[k], snippet |-> trim(lines[n])]>>
              ELSE <<>>)
             \o searchHits(query, k + 1)

searchItemsOf(query) == searchHits(query, 1)

searchItemsTable == Tabulate(searchItemsOf, Queries)

searchItems(query) == searchItemsTable[query]

\* every item the search service can return
Items == UNION {Range(searchItemsTable[q]) : q \in Queries}

RECURSIVE lineIncluding(_, _, _)
\* the first line from the k-th on that includes the text, 0 when none does
lineIncluding(lines, text, k) ==
    IF k > Len(lines) THEN 0
    ELSE IF includes(lines[k], text) THEN k
    ELSE lineIncluding(lines, text, k + 1)

\* searchCodeViaAPI: the fileInfo stored for an item, content "null" when
\* the file could not be fetched; line 0 stands for no line number
fileInfoOf(item, content) ==
    LET n == IF content = "null" THEN 0
             ELSE lineIncluding(fileLines(item.path),
                                SubSeq(item.snippet, 1,
                                       IF Len(item.snippet) < 30
                                       THEN Len(item.snippet) ELSE 30), 1)
    IN  [path |-> item.path, line |-> n,
         snippet |-> IF n = 0 THEN item.snippet
                     ELSE trim(fileLines(item.path)[n])]

fileInfoTable ==
    LET Row(item) == LET Cell(c) == fileInfoOf(item, c)
                     IN  Tabulate(Cell, {"content", "null"})
    IN  Tabulate(Row, Items)

fileInfo(item, content) == fileInfoTable[item][content]

\* an add that does not look for the element
setAddAgain(s, x) == Append(s, x)

\* Set.prototype.add on a set kept in insertion order
setAdd(s, x) == IF x \in Range(s) THEN s ELSE Append(s, x)

\* sdkFindings.has(key) / set(key, ...) / get(key).files.add(...)
RECURSIVE sdkEnsure(_, _, _)
sdkEnsure(sdk, key, provider) ==
    IF sdk = <<>> THEN <<[key |-> key, provider |-> provider, files |-> <<>>]>>
    ELSE IF Head(sdk).key = key THEN sdk
    ELSE <<Head(sdk)>> \o sdkEnsure(Tail(sdk), key, provider)

sdkAddFile(sdk, key, info) ==
    LET Added(e) == IF e.key = key
                    THEN [e EXCEPT !.files = setAdd(e.files, info)]
                    ELSE e
    IN  Map(Added, sdk)

fileInfoEvidence(info) == Ev(info.path, info.line, info.snippet)

\* convertSearchToFindings: one finding per provider with files
convertSearchToFindings(sdk) ==
    LET NonEmpty(e) == Len(e.files) > 0
        Converted(data) ==
            LET shown == SubSeq(data.files, 1,
                                IF Len(data.files) < 5 THEN Len(data.files) ELSE 5)
            IN  Finding("code-sdk-search-" \o data.key,
                        data.provider \o " SDK Usage Detected (via Search API)",
                        "code", "high", 5, Map(fileInfoEvidence, shown), <<>>)
    IN  Map(Converted, SelectSeq(sdk, NonEmpty))

RECURSIVE distinctFiles(_, _)
\* codeDetector: the files named by the evidence of the findings, once each
distinctFiles(evs, acc) ==
    IF evs = <<>> THEN acc
    ELSE distinctFiles(Tail(evs), setAdd(acc, Head(evs).file))

filesOfFindings(findings) ==
    distinctFiles(FlatMap(findingEvidence, findings), <<>>)

(***************************************************************************)
(* State.                                                                  *)
(***************************************************************************)
VARIABLES
    token,                  \* input.token: is a token supplied
    sbomAnswer,             \* what the dependency-graph service answers
    resetAnswer,            \* the reset time the search service reports
    searchDown,             \* the search service fails every request
    pc,                     \* position of analyzeRepository and its callee
    idx,                    \* index (from 1) of the unit of the main pass
    allFindings,
    codeResumeState,        \* <<>> for null, else <<resumeState>>
    codeDetectorPaused,
    aiFilesFound,
    sbomAvailable,
    detectedDependencies,
    parsedDocs,             \* <<>> for null
    log,                    \* the console lines the claims are about
    result,                 \* <<>> until analyzeRepository has returned
    cu,                     \* frame of codeDetector / searchCodeViaAPI
    ul,                     \* frame of the file loop of a unit
    issued,                 \* the search requests sent, in order
    input,                  \* the input of the latest invocation of a unit
    cache,                  \* createFileContentFetcher: path -> value
    rateLimitWaitUntil,     \* createFileContentFetcher
    gf,                     \* frame of the getFileContent call in progress
    faults,                 \* failures injected so far
    mergeInput,             \* the reconciler on its own: its argument
    mergeOutput,            \* <<>> or <<its result>>
    currentFindings,        \* the BOM generators: the result list shown
    selectedFindings,       \* the findings of the list that are selected
    generatedBOMs,          \* format -> <<>> or <<the document>>
    response,               \* searchCodeInRepo on its own: what fetch does
    callResult              \* <<>> or <<what searchCodeInRepo returns>>

envVars == <<token, sbomAnswer, resetAnswer, searchDown>>

ctxVars == <<aiFilesFound, sbomAvailable, detectedDependencies, parsedDocs>>

pauseVars == <<codeResumeState, codeDetectorPaused>>

fetchVars == <<cache, rateLimitWaitUntil>>

mergeVars == <<mergeInput, mergeOutput>>

bomVars == <<currentFindings, selectedFindings, generatedBOMs>>

callVars == <<response, callResult>>

\* the variables of the functions that are also run on their own
ownVars == <<mergeVars, bomVars, callVars>>

vars == <<token, sbomAnswer, resetAnswer, searchDown, pc, idx, allFindings,
          codeResumeState, codeDetectorPaused, aiFilesFound, sbomAvailable,
          detectedDependencies, parsedDocs, log, result, cu, ul, issued, input,
          cache, rateLimitWaitUntil, gf, faults, mergeInput, mergeOutput,
          currentFindings, selectedFindings, generatedBOMs, response,
          callResult>>

NoCode ==
    [inv |-> "none", searches |-> <<>>, i |-> 0, sdkFindings |-> <<>>,
     lastRateLimit |-> [remaining |-> 10, limit |-> 10, resetTime |-> NoReset],
     items |-> <<>>]

NoLoop == [k |-> 0, findings |-> <<>>]

NoFetch == [path |-> "", ret |-> "", val |-> "none", parity |-> 0,
            sent |-> FALSE]

L(ev, unit, n) == [ev |-> ev, unit |-> unit, n |-> n]

\* generatedBOMs before a document is generated
NoBOMs == [json |-> <<>>, xml |-> <<>>, spdx |-> <<>>, extended |-> <<>>]

\* no call of searchCodeInRepo on its own
NoResponse == [thrown |-> "", status |-> 0, remaining |-> "", body |-> ""]

Init ==
    /\ token \in BOOLEAN
    /\ sbomAnswer \in SbomAnswers
    /\ resetAnswer \in ResetAnswers
    /\ searchDown \in (IF token /\ resetAnswer = NoReset THEN BOOLEAN ELSE {FALSE})
    /\ pc = "loop"
    /\ idx = 1
    /\ allFindings = <<>>
    /\ codeResumeState = <<>>
    /\ codeDetectorPaused = FALSE
    /\ aiFilesFound = <<>>
    /\ sbomAvailable = FALSE
    /\ detectedDependencies = <<>>
    /\ parsedDocs = <<>>
    /\ log = <<>>
    /\ input = NoInput
    /\ result = <<>>
    /\ cu = NoCode
    /\ ul = NoLoop
    /\ issued = <<>>
    /\ cache = [p \in Paths |-> "none"]
    /\ rateLimitWaitUntil = 0
    /\ gf = NoFetch
    /\ faults = 0
    /\ mergeInput = <<>>
    /\ mergeOutput = <<>>
    /\ currentFindings = <<>>
    /\ selectedFindings = <<>>
    /\ generatedBOMs = NoBOMs
    /\ response = NoResponse
    /\ callResult = <<>>

(***************************************************************************)
(* analyzeRepository: the end of a run.                                    *)
(***************************************************************************)
\* the result with the score taken from the findings before the merge
analysisResultUnmerged(findings) ==
    LET mergedFindings == mergeDependencyAndCodeFindings(findings)
    IN  [score |-> calculateScore(findings), findings |-> mergedFindings]

\* what analyzeRepository returns for the accumulated findings
analysisResult(findings) ==
    LET mergedFindings == mergeDependencyAndCodeFindings(findings)
    IN  [score |-> calculateScore(mergedFindings), findings |-> mergedFindings]

\* the check "result.paused && detector.canResume"
pausedAfter(detector, paused) == paused /\ "canResume" \in detector.flags

\* a unit of the main pass has returned: the pipeline context is updated and
\* the loop moves on; after the last unit the run resumes the code unit or
\* merges, scores and returns
MainReturn(fs, ai, sb, deps, pd, paused, rs, lg) ==
    /\ allFindings' = fs
    /\ aiFilesFound' = ai
    /\ sbomAvailable' = sb
    /\ detectedDependencies' = deps
    /\ parsedDocs' = pd
    /\ codeDetectorPaused' = paused
    /\ codeResumeState' = rs
    /\ idx' = idx + 1
    /\ IF idx + 1 <= Len(detectors)
       THEN pc' = "loop" /\ result' = result /\ log' = lg
       ELSE IF paused /\ rs # <<>>
       THEN pc' = "resume" /\ result' = result /\ log' = lg
       ELSE /\ pc' = "done"
            /\ result' = <<analysisResult(fs)>>
            /\ log' = Append(lg, L("complete", "", 0))

\* the merge of the resumed findings without the check on the id
resumedMergeAll(existing, resumed) == existing \o resumed

\* the merge of the resumed findings: those whose id is not yet present
resumedMerge(existing, resumed) ==
    LET existingIds == {existing[k].id : k \in 1..Len(existing)}
        New(f) == f.id \notin existingIds
    IN  existing \o SelectSeq(resumed, New)

\* the resumed invocation re-invoked as long as it reports a pause
afterResumedAgain(paused) == IF paused THEN "resume" ELSE "done"

\* where the run goes after the resumed invocation: its paused flag is not
\* read, the run merges, scores and returns
afterResumed(paused) == "done"

\* the resumed invocation has returned: its findings are merged by id, then
\* the run merges dependency and code findings, scores and returns
ResumeReturn(fs, paused, lg) ==
    /\ allFindings' = fs
    /\ pc' = afterResumed(paused)
    /\ IF afterResumed(paused) = "done"
       THEN /\ result' = <<analysisResult(fs)>>
            /\ log' = Append(lg, L("complete", "", 0))
       ELSE /\ result' = result
            /\ log' = lg
    /\ UNCHANGED <<idx, ctxVars, pauseVars>>

\* the log line that opens the invocation of the unit at idx
Running == L("running", detectors[idx].name, idx)

(***************************************************************************)
(* getFileContent (createFileContentFetcher).                              *)
(***************************************************************************)
elapseRateLimit(rl, w) == [rl EXCEPT !.resetTime = elapse(rl.resetTime, w)]

elapseResume(rs, w) ==
    IF rs = <<>> THEN rs
    ELSE <<[rs[1] EXCEPT !.lastRateLimit = elapseRateLimit(rs[1].lastRateLimit, w)]>>

\* a caller awaits getFileContent(path) and continues at ret
CallFetch(path, ret) ==
    /\ pc' = "gf"
    /\ gf' = [path |-> path, ret |-> ret, val |-> "none", parity |-> 0,
              sent |-> FALSE]

\* the retry after a rate-limit answer: only for a wait within the cap
retryAllowed(r) == r # NoReset /\ r > 0 /\ r < FetchWaitCap

\* cache.set that stores the content of a file but not a failure
cacheSetContentOnly(c, path, value) ==
    IF value = "content" THEN [c EXCEPT ![path] = value] ELSE c

\* cache.set(path, value)
cacheSet(c, path, value) == [c EXCEPT ![path] = value]

\* one pass through getFileContent: the cached value, or the wait for the
\* recorded reset, the request and the handling of its answer
GetFileContent ==
    /\ pc = "gf"
    /\ UNCHANGED <<envVars, input, idx, allFindings, codeDetectorPaused, ctxVars,
                   log, result, ul, issued, ownVars>>
    /\ IF cache[gf.path] # "none"
       THEN /\ gf' = [gf EXCEPT !.val = cache[gf.path]]
            /\ pc' = gf.ret
            /\ UNCHANGED <<cache, rateLimitWaitUntil, cu, codeResumeState, faults>>
       ELSE LET w0 == rateLimitWaitUntil
            IN  \/ \* the content is returned
                   /\ cache' = cacheSet(cache, gf.path, "content")
                   /\ gf' = [gf EXCEPT !.val = "content", !.sent = TRUE]
                   /\ pc' = gf.ret
                   /\ rateLimitWaitUntil' = 0
                   /\ cu' = [cu EXCEPT !.lastRateLimit = elapseRateLimit(@, w0)]
                   /\ codeResumeState' = elapseResume(codeResumeState, w0)
                   /\ UNCHANGED faults
                \/ \* 429 or 403, with or without a reset header
                   \E r \in ResetAnswers :
                      IF retryAllowed(r)
                      THEN /\ gf' = [gf EXCEPT !.parity = 1 - @, !.sent = TRUE]
                           /\ pc' = "gf"
                           /\ rateLimitWaitUntil' = 0
                           /\ cu' = [cu EXCEPT !.lastRateLimit =
                                                    elapseRateLimit(@, w0 + r)]
                           /\ codeResumeState' =
                                  elapseResume(codeResumeState, w0 + r)
                           /\ UNCHANGED <<cache, faults>>
                      ELSE /\ faults < MaxFaults
                           /\ faults' = faults + 1
                           /\ cache' = cacheSet(cache, gf.path, "null")
                           /\ gf' = [gf EXCEPT !.val = "null", !.sent = TRUE]
                           /\ pc' = gf.ret
                           /\ rateLimitWaitUntil' = IF r = NoReset THEN 0 ELSE r
                           /\ cu' = [cu EXCEPT !.lastRateLimit =
                                                    elapseRateLimit(@, w0)]
                           /\ codeResumeState' = elapseResume(codeResumeState, w0)
                \/ \* any other failed response, or a thrown error
                   /\ faults < MaxFaults
                   /\ faults' = faults + 1
                   /\ cache' = cacheSet(cache, gf.path, "null")
                   /\ gf' = [gf EXCEPT !.val = "null", !.sent = TRUE]
                   /\ pc' = gf.ret
                   /\ rateLimitWaitUntil' = 0
                   /\ cu' = [cu EXCEPT !.lastRateLimit = elapseRateLimit(@, w0)]
                   /\ codeResumeState' = elapseResume(codeResumeState, w0)

(***************************************************************************)
(* The main pass of analyzeRepository.                                     *)
(***************************************************************************)
\* a unit modelled by its result: the documentation parser, the risk unit
\* (an object with findings and parsedDocs) or a unit returning an array
RunUnit ==
    /\ pc = "loop"
    /\ detectors[idx].name \notin SteppedUnits
    /\ LET d == detectors[idx]
       IN  IF "isParser" \in d.flags
           THEN MainReturn(allFindings, aiFilesFound, sbomAvailable,
                           detectedDependencies, <<"docs">>,
                           codeDetectorPaused, codeResumeState,
                           Append(log, Running))
           ELSE MainReturn(allFindings \o unitFindings(d.name), aiFilesFound,
                           sbomAvailable, detectedDependencies,
                           IF d.name = "Risk Assessment"
                           THEN <<"docs">> ELSE parsedDocs,
                           codeDetectorPaused, codeResumeState,
                           Append(log, Running))
    /\ input' = mainInput(detectors[idx])
    /\ UNCHANGED <<envVars, cu, ul, issued, fetchVars, gf, faults, ownVars>>

\* the catch block emptying the accumulated findings
findingsAfterErrorCleared(fs) == <<>>

\* the accumulated findings after a catch block: it only logs
findingsAfterError(fs) == fs

\* the unit at idx throws: the error is caught and logged, the loop goes on
UnitThrows ==
    /\ pc = "loop"
    /\ faults < MaxFaults
    /\ faults' = faults + 1
    /\ MainReturn(findingsAfterError(allFindings), aiFilesFound, sbomAvailable,
                  detectedDependencies, parsedDocs, codeDetectorPaused,
                  codeResumeState,
                  log \o <<Running, L("error", detectors[idx].name, idx)>>)
    /\ input' = mainInput(detectors[idx])
    /\ UNCHANGED <<envVars, cu, ul, issued, fetchVars, gf, ownVars>>

\* dependenciesDetector: the dependency graph, else the manifest files
DependenciesStart ==
    /\ pc = "loop"
    /\ detectors[idx].name = "Dependencies"
    /\ IF Len(sbomAnswer) > 0
       THEN /\ MainReturn(allFindings \o sbomFindings(sbomAnswer), aiFilesFound,
                          TRUE, sbomAnswer, parsedDocs, codeDetectorPaused,
                          codeResumeState, Append(log, Running))
            /\ UNCHANGED <<ul, gf>>
       ELSE /\ ul' = [k |-> 1, findings |-> <<>>]
            /\ log' = Append(log, Running)
            /\ CallFetch(manifestFiles[1], "manifest")
            /\ UNCHANGED <<idx, allFindings, ctxVars, pauseVars, result>>
    /\ input' = mainInput(detectors[idx])
    /\ UNCHANGED <<envVars, cu, issued, fetchVars, faults, ownVars>>

\* dependenciesDetector: a manifest has been fetched
DependenciesManifest ==
    /\ pc = "manifest"
    /\ LET path == manifestFiles[ul.k]
           found == IF gf.val = "content"
                    THEN ul.findings \o manifestFindings(path) ELSE ul.findings
       IN  IF ul.k < Len(manifestFiles)
           THEN /\ ul' = [k |-> ul.k + 1, findings |-> found]
                /\ CallFetch(manifestFiles[ul.k + 1], "manifest")
                /\ UNCHANGED <<idx, allFindings, ctxVars, pauseVars, result, log>>
           ELSE /\ ul' = NoLoop
                /\ gf' = NoFetch
                /\ MainReturn(allFindings \o found, aiFilesFound, FALSE, <<>>,
                              parsedDocs, codeDetectorPaused, codeResumeState,
                              log)
    /\ UNCHANGED <<envVars, input, cu, issued, fetchVars, faults, ownVars>>

\* ciDetector: the workflow files
CiStart ==
    /\ pc = "loop"
    /\ detectors[idx].name = "CI/CD"
    /\ ul' = [k |-> 1, findings |-> <<>>]
    /\ log' = Append(log, Running)
    /\ CallFetch(ciFiles[1], "workflow")
    /\ input' = mainInput(detectors[idx])
    /\ UNCHANGED <<envVars, idx, allFindings, ctxVars, pauseVars, result, cu,
                   issued, fetchVars, faults, ownVars>>

\* ciDetector: a workflow file has been fetched
CiWorkflow ==
    /\ pc = "workflow"
    /\ LET path == ciFiles[ul.k]
           found == IF gf.val = "content"
                    THEN ul.findings \o ciFindings(path) ELSE ul.findings
       IN  IF ul.k < Len(ciFiles)
           THEN /\ ul' = [k |-> ul.k + 1, findings |-> found]
                /\ CallFetch(ciFiles[ul.k + 1], "workflow")
                /\ UNCHANGED <<idx, allFindings, ctxVars, pauseVars, result, log>>
           ELSE /\ ul' = NoLoop
                /\ gf' = NoFetch
                /\ MainReturn(allFindings \o found, aiFilesFound, sbomAvailable,
                              detectedDependencies, parsedDocs,
                              codeDetectorPaused, codeResumeState, log)
    /\ UNCHANGED <<envVars, input, cu, issued, fetchVars, faults, ownVars>>

(***************************************************************************)
(* codeDetector and searchCodeViaAPI.                                      *)
(***************************************************************************)
\* the values of X-RateLimit-Remaining the search service may report
RemainingAnswers == {0, 5}

\* codeDetector has a result for its caller: the main pass records it (and a
\* pause), the resumption merges it by id
CodeReturn(findings, ai, paused, rs, lg) ==
    IF cu.inv = "main"
    THEN MainReturn(allFindings \o findings, ai, sbomAvailable,
                    detectedDependencies, parsedDocs,
                    codeDetectorPaused \/ pausedAfter(detectors[idx], paused),
                    IF pausedAfter(detectors[idx], paused)
                    THEN <<rs>> ELSE codeResumeState,
                    IF pausedAfter(detectors[idx], paused)
                    THEN Append(lg, L("paused", "Code", rs.lastSearchIndex))
                    ELSE lg)
    ELSE ResumeReturn(resumedMerge(allFindings, findings), paused,
                      Append(lg, L("resumed", "Code",
                                   Len(resumedMerge(allFindings, findings))
                                       - Len(allFindings))))

\* the frame of an invocation of searchCodeViaAPI
searchFrame(inv, searches, rs) ==
    [inv |-> inv, searches |-> searches,
     i |-> IF rs = <<>> THEN 0 ELSE rs[1].lastSearchIndex,
     sdkFindings |-> IF rs = <<>> THEN <<>> ELSE rs[1].sdkFindings,
     lastRateLimit |-> IF rs = <<>> THEN NoCode.lastRateLimit
                       ELSE rs[1].lastRateLimit,
     items |-> <<>>]

\* codeDetector in the main pass: the search API with a token, else the scan
CodeStart ==
    /\ pc = "loop"
    /\ detectors[idx].name = "Code"
    /\ log' = Append(log, Running)
    /\ IF token
       THEN /\ cu' = searchFrame("main",
                         buildSearches(
                             "needsDependencies" \in detectors[idx].flags
                                 /\ sbomAvailable,
                             IF "needsDependencies" \in detectors[idx].flags
                             THEN detectedDependencies ELSE <<>>),
                         <<>>)
            /\ pc' = "search"
            /\ UNCHANGED <<ul, gf>>
       ELSE /\ cu' = [NoCode EXCEPT !.inv = "main"]
            /\ ul' = [k |-> 1, findings |-> <<>>]
            /\ CallFetch(codeFiles[1], "scan")
    /\ input' = mainInput(detectors[idx])
    /\ UNCHANGED <<envVars, idx, allFindings, ctxVars, pauseVars, result,
                   issued, fetchVars, faults, ownVars>>

\* codeDetector, file scanning: a source file has been fetched
CodeScan ==
    /\ pc = "scan"
    /\ LET path == codeFiles[ul.k]
           found == IF gf.val = "content"
                    THEN ul.findings \o scanFindings(path) ELSE ul.findings
       IN  IF ul.k < Len(codeFiles)
           THEN /\ ul' = [k |-> ul.k + 1, findings |-> found]
                /\ CallFetch(codeFiles[ul.k + 1], "scan")
                /\ UNCHANGED <<idx, allFindings, ctxVars, pauseVars, result,
                               log, cu>>
           ELSE /\ ul' = NoLoop
                /\ gf' = NoFetch
                /\ cu' = NoCode
                /\ CodeReturn(found, <<>>, FALSE, <<>>, log)
    /\ UNCHANGED <<envVars, input, issued, fetchVars, faults, ownVars>>

\* the resume state of a pause at query i (from 0)
resumeStateAt(i, rl) ==
    [sdkFindings |-> cu.sdkFindings, lastSearchIndex |-> i, lastRateLimit |-> rl]

\* the index of the answered query stored again
nextIndexSame(i) == i

\* the index stored when the answer reports no remaining quota
nextIndexAfterAnswer(i) == i + 1

\* the check of the remaining quota left out
quotaExhaustedNever(rateLimit) == FALSE

\* the check "lastRateLimit.remaining === 0" after an answer
quotaExhausted(rateLimit) == rateLimit.remaining = 0

\* searchCodeViaAPI: query cu.i is sent and its answer handled.  The answer
\* is recorded as "limited" (false), "failed" (null), "exhausted" (a result
\* reporting no remaining quota) or "ok" (any other result)
SearchStep ==
    /\ pc = "search"
    /\ cu.i < Len(cu.searches)
    /\ LET q == cu.searches[cu.i + 1]
           key == q.provider \o "-search"
           partial == convertSearchToFindings(cu.sdkFindings)
           Sent(answer) ==
               Append(issued, [inv |-> cu.inv, query |-> q.query,
                               answer |-> answer])
       IN  /\ \/ \* 403 or 429: searchCodeInRepo returns false
                 /\ ~searchDown
                 /\ issued' = Sent("limited")
                 /\ cu' = NoCode
                 /\ CodeReturn(partial, filesOfFindings(partial), TRUE,
                               resumeStateAt(cu.i, cu.lastRateLimit),
                               log \o <<L("exhausted", cu.inv, cu.i),
                                        L("found", cu.inv, Len(partial))>>)
                 /\ UNCHANGED <<gf, faults>>
              \/ \* another failure: searchCodeInRepo returns null
                 /\ issued' = Sent("failed")
                 /\ searchDown \/ faults < MaxFaults
                 /\ faults' = IF searchDown THEN faults ELSE faults + 1
                 /\ cu' = [cu EXCEPT !.i = @ + 1]
                 /\ UNCHANGED <<pc, idx, allFindings, ctxVars, pauseVars,
                                result, log, gf>>
              \/ \* a result, with the rate-limit headers
                 /\ ~searchDown
                 /\ \E remaining \in RemainingAnswers :
                    LET rl == [remaining |-> remaining, limit |-> 10,
                               resetTime |-> resetAnswer]
                        sdk == sdkEnsure(cu.sdkFindings, key, q.provider)
                        items == searchItems(q.query)
                    IN  /\ issued' = Sent(IF remaining = 0 THEN "exhausted" ELSE "ok")
                        /\ IF quotaExhausted(rl)
                           THEN /\ cu' = NoCode
                                /\ CodeReturn(partial, filesOfFindings(partial), TRUE,
                                              resumeStateAt(nextIndexAfterAnswer(cu.i), rl),
                                              log \o <<L("exhausted", cu.inv, cu.i),
                                                       L("found", cu.inv, Len(partial))>>)
                                /\ UNCHANGED <<gf, faults>>
                           ELSE IF items = <<>>
                           THEN /\ cu' = [cu EXCEPT !.i = @ + 1,
                                                    !.sdkFindings = sdk,
                                                    !.lastRateLimit = rl]
                                /\ UNCHANGED <<pc, idx, allFindings, ctxVars,
                                               pauseVars, result, log, gf, faults>>
                           ELSE /\ cu' = [cu EXCEPT !.sdkFindings = sdk,
                                                    !.lastRateLimit = rl,
                                                    !.items = items]
                                /\ CallFetch(items[1].path, "item")
                                /\ UNCHANGED <<idx, allFindings, ctxVars,
                                               pauseVars, result, log, faults>>
    /\ UNCHANGED <<envVars, input, ul, fetchVars, ownVars>>

\* searchCodeViaAPI: the file of an item has been fetched for its line number
SearchItem ==
    /\ pc = "item"
    /\ LET q == cu.searches[cu.i + 1]
           key == q.provider \o "-search"
           sdk == sdkAddFile(cu.sdkFindings, key, fileInfo(Head(cu.items), gf.val))
       IN  IF Len(cu.items) > 1
           THEN /\ cu' = [cu EXCEPT !.sdkFindings = sdk, !.items = Tail(@)]
                /\ CallFetch(cu.items[2].path, "item")
           ELSE /\ cu' = [cu EXCEPT !.sdkFindings = sdk, !.items = <<>>,
                                    !.i = @ + 1]
                /\ pc' = "search"
                /\ gf' = NoFetch
    /\ UNCHANGED <<envVars, input, idx, allFindings, ctxVars, pauseVars, result, log,
                   ul, issued, fetchVars, faults, ownVars>>

\* searchCodeViaAPI: every query of the plan has been handled.  It returns an
\* object whatever the answers were, so codeDetector takes the branch
\* "if (searchResult)" and returns; the file scan below it is not reached
SearchDone ==
    /\ pc = "search"
    /\ cu.i >= Len(cu.searches)
    /\ LET all == convertSearchToFindings(cu.sdkFindings)
       IN  /\ cu' = NoCode
           /\ CodeReturn(all, filesOfFindings(all), FALSE, <<>>,
                         log \o <<L("completed", cu.inv, Len(cu.searches)),
                                  L("found", cu.inv, Len(all))>>)
    /\ UNCHANGED <<envVars, input, ul, issued, fetchVars, gf, faults, ownVars>>

(***************************************************************************)
(* The resumption of the code unit.                                        *)
(***************************************************************************)
\* the wait before the resumption without the cap
resumeWaitUncapped(resetTime) ==
    IF resetTime # NoReset /\ resetTime > 0
    THEN resetTime + 1000
    ELSE 0

\* the wait before the resumption, 0 for none
resumeWait(resetTime) ==
    IF resetTime # NoReset /\ resetTime > 0 /\ resetTime < ResumeWaitCap
    THEN resetTime + 1000
    ELSE 0

\* the plan of the resumed invocation: its input is detectorInput plus
\* resumeState, so sbomAvailable and detectedDependencies take their defaults
resumedSearches(sb, deps) == buildSearches(FALSE, <<>>)

\* the orchestrator waits for the reset if it is near, then re-invokes
\* codeDetector with the resume state; the invocation may throw
Resume ==
    /\ pc = "resume"
    /\ LET rs == codeResumeState[1]
           w == resumeWait(rs.lastRateLimit.resetTime)
           lg == IF w > 0
                 THEN log \o <<L("resuming", "Code", 0), L("waiting", "Code", w)>>
                 ELSE Append(log, L("resuming", "Code", 0))
       IN  /\ rateLimitWaitUntil' = elapse(rateLimitWaitUntil, w)
           /\ \/ /\ cu' = searchFrame("resumed",
                              resumedSearches(sbomAvailable, detectedDependencies),
                              elapseResume(codeResumeState, w))
                 /\ pc' = "search"
                 /\ log' = lg
                 /\ codeResumeState' = elapseResume(codeResumeState, w)
                 /\ UNCHANGED <<idx, allFindings, ctxVars, codeDetectorPaused,
                                result, faults>>
              \/ /\ faults < MaxFaults
                 /\ faults' = faults + 1
                 /\ cu' = cu
                 /\ allFindings' = findingsAfterError(allFindings)
                 /\ pc' = "done"
                 /\ result' = <<analysisResult(findingsAfterError(allFindings))>>
                 /\ log' = lg \o <<L("error", "Code", 0), L("complete", "", 0)>>
                 /\ codeResumeState' = elapseResume(codeResumeState, w)
                 /\ UNCHANGED <<idx, ctxVars, codeDetectorPaused>>
    /\ input' = resumedInput
    /\ UNCHANGED <<envVars, ul, issued, cache, gf, ownVars>>

Next ==
    \/ RunUnit
    \/ UnitThrows
    \/ DependenciesStart
    \/ DependenciesManifest
    \/ CiStart
    \/ CiWorkflow
    \/ CodeStart
    \/ CodeScan
    \/ SearchStep
    \/ SearchItem
    \/ SearchDone
    \/ Resume
    \/ GetFileContent

Spec == Init /\ [][Next]_vars

\* the event loop runs every continuation that is ready
FairSpec == Spec /\ WF_vars(Next)

(***************************************************************************)
(* The reconciler on its own: mergeDependencyAndCodeFindings applied to    *)
(* lists of findings as the units produce them.                            *)
(***************************************************************************)
\* a code finding of the file scan for a provider the repository does not
\* depend on
anthropicFinding ==
    Finding("code-sdk-Anthropic-python", "Anthropic SDK Usage Detected",
            "code", "high", 5,
            <<Ev("bot.py", 0, "from anthropic import AsyncAnthropic")>>, <<>>)

\* a finding of the search API for the OpenAI SDK
searchFinding ==
    Finding("code-sdk-search-OpenAI-search",
            "OpenAI SDK Usage Detected (via Search API)", "code", "high", 5,
            <<Ev("app.py", 10, "from openai import AsyncOpenAI")>>, <<>>)

\* the finding of the manifest parser for a package.json that declares the
\* openai package of the node ecosystem
packageJsonFinding ==
    dependencyFinding([name |-> "openai", version |-> "4.0"],
                      detectEcosystem("web/package.json"),
                      Ev("web/package.json", 3, "\"openai\": \"4.0\""),
                      "manual-parsing")

\* findings of the units: dependencies from the dependency graph and from
\* manifests, code findings of the scan and of the search, a configuration
\* finding
mergePool ==
    UNION {Range(sbomFindings(a)) : a \in SbomAnswers}
    \cup UNION {Range(manifestFindings(p)) : p \in Range(manifestFiles)}
    \cup Range(scanFindings(codeFiles[1]))
    \cup {packageJsonFinding, anthropicFinding, searchFinding, configFinding}

RECURSIVE listsUpTo(_)
\* the lists of at most n distinct findings of the pool
listsUpTo(n) ==
    IF n = 0 THEN {<<>>}
    ELSE LET shorter == listsUpTo(n - 1)
             longest == {l \in shorter : Len(l) = n - 1}
         IN  shorter
             \cup {Append(p[1], p[2]) :
                      p \in {q \in longest \X mergePool : q[2] \notin Range(q[1])}}

\* dependenciesDetector returns the findings of the dependency graph or
\* those of the manifests, never both
oneSource(findings) ==
    \A j, k \in 1..Len(findings) :
       (isDependencyFinding(findings[j]) /\ isDependencyFinding(findings[k]))
       => findings[j].dependencyInfo[1].source
              = findings[k].dependencyInfo[1].source

MergeInputs == {l \in listsUpTo(MaxMergeInput) : oneSource(l)}

MergeInit ==
    /\ mergeInput \in MergeInputs
    /\ mergeOutput = <<>>
    /\ token = FALSE
    /\ sbomAnswer = <<>>
    /\ resetAnswer = NoReset
    /\ searchDown = FALSE
    /\ pc = "merge"
    /\ idx = 1
    /\ allFindings = <<>>
    /\ codeResumeState = <<>>
    /\ codeDetectorPaused = FALSE
    /\ aiFilesFound = <<>>
    /\ sbomAvailable = FALSE
    /\ detectedDependencies = <<>>
    /\ parsedDocs = <<>>
    /\ log = <<>>
    /\ input = NoInput
    /\ result = <<>>
    /\ cu = NoCode
    /\ ul = NoLoop
    /\ issued = <<>>
    /\ cache = [p \in Paths |-> "none"]
    /\ rateLimitWaitUntil = 0
    /\ gf = NoFetch
    /\ faults = 0
    /\ currentFindings = <<>>
    /\ selectedFindings = <<>>
    /\ generatedBOMs = NoBOMs
    /\ response = NoResponse
    /\ callResult = <<>>

\* the reconciler is called with the list
Merge ==
    /\ pc = "merge"
    /\ mergeOutput' = <<mergeDependencyAndCodeFindings(mergeInput)>>
    /\ pc' = "merged"
    /\ UNCHANGED <<envVars, input, idx, allFindings, pauseVars, ctxVars, log, result,
                   cu, ul, issued, fetchVars, gf, faults, mergeInput,
                   bomVars, callVars>>

MergeNext == Merge

MergeSpec == MergeInit /\ [][MergeNext]_vars

(***************************************************************************)
(* The BOM generators (src/js/utils.js) on the findings selected in the    *)
(* result list.  A document is kept as its components and its dependency   *)
(* entries.  Random identifiers are taken to be fresh: the n-th identifier  *)
(* drawn in a call is the label of the call followed by n.                 *)
(***************************************************************************)
\* modelsIdentifierDetector: the finding pushed for a model
modelsFinding(provider, modelName, modelType, relatedModels, detectionSource) ==
    [Finding("model-" \o provider \o "-" \o modelName,
             "AI Model Identified: " \o modelName, "models", "high", 5,
             <<Ev("app.py", 12, "model='" \o modelName \o "'")>>, <<>>)
        EXCEPT !.modelInfo = <<ModelInfo(provider, modelName, modelType,
                                         relatedModels, detectionSource)>>]

\* the finding of the manifest parser for the transformers package
transformersFinding ==
    dependencyFinding([name |-> "transformers", version |-> "4.40"],
                      detectEcosystem("requirements.txt"),
                      Ev("requirements.txt", 2, "transformers==4.40"),
                      "manual-parsing")

\* the result lists of three analysed repositories, in the order of the
\* units.  The first depends on transformers and names gpt-4o in its code and
\* in a configuration file; the second depends on openai and writes the
\* model as 'openai/gpt-4o', which the model-identification unit finds under
\* the providers OpenAI and HuggingFace and cross-links; the third depends
\* on transformers and names an embedding model of OpenAI and a model of the
\* HuggingFace registry.
analysedFindings ==
    {<<transformersFinding,
       modelsFinding("OpenAI", "gpt-4o", "text-generation", <<>>, ""),
       configFinding, riskFinding>>,
     <<sbomFindingsOf(<<[name |-> "openai", version |-> "1.0",
                         ecosystem |-> "python"]>>)[1],
       modelsFinding("OpenAI", "gpt-4o", "text-generation",
           <<[provider |-> "HuggingFace", modelName |-> "openai/gpt-4o"]>>,
           "OpenAI Official"),
       modelsFinding("HuggingFace", "openai/gpt-4o", "unknown",
           <<[provider |-> "OpenAI", modelName |-> "gpt-4o"]>>,
           "HuggingFace Pattern Match"),
       configFinding, riskFinding>>,
     <<transformersFinding,
       modelsFinding("OpenAI", "text-embedding-3-small", "embeddings", <<>>, ""),
       modelsFinding("HuggingFace", "BAAI/bge-small-en", "unknown", <<>>,
                     "HuggingFace Pattern Match")>>}

\* getSelectedFindings: the findings of the list whose id is selected
getSelectedFindings(findings, selectedIds) ==
    LET Test(f) == f.id \in selectedIds
    IN  SelectSeq(findings, Test)

\* the selections of at least n and at most MaxSelected findings of a list
selectionsOf(findings, n) ==
    {getSelectedFindings(findings, ids) :
        ids \in {i \in SUBSET {f.id : f \in Range(findings)} :
                    Cardinality(i) \in n..MaxSelected}}

\* the selections of at least one finding for which documents are generated
BomInputs == UNION {selectionsOf(l, 1) : l \in analysedFindings}

\* generateShortId: the n-th identifier drawn in a call
generateShortId(call, n) == call \o ToString(n)

\* the 'category' property createMLModelComponents gives a model component
\* ("" for none)
modelCategory(modelInfo) ==
    IF modelInfo.modelType # "" /\ modelInfo.modelType # "unknown"
    THEN modelInfo.modelType
    ELSE IF includes(modelInfo.modelName, "gpt") THEN "text-generation"
    ELSE IF includes(modelInfo.modelName, "embed") THEN "embeddings"
    ELSE ""

\* the names of knownLibraries
knownLibraries ==
    ("transformers" :> "Transformers") @@ ("pytorch" :> "PyTorch")
    @@ ("tensorflow" :> "TensorFlow") @@ ("diffusers" :> "Diffusers")
    @@ ("sentence-transformers" :> "Sentence Transformers")

\* createLibraryComponents: the libraries named by the dependency findings
\* are added to libraryDeps; every known library of the set is a component
createLibraryComponents(libraryDeps, findings) ==
    LET Named(f) ==
            IF f.category # "dependencies" THEN <<>>
            ELSE LET desc == toLowerCase(f.description)
                 IN  (IF includes(desc, "transformers")
                      THEN <<"transformers">> ELSE <<>>)
                     \o (IF includes(desc, "torch") THEN <<"pytorch">> ELSE <<>>)
                     \o (IF includes(desc, "tensorflow")
                         THEN <<"tensorflow">> ELSE <<>>)
                     \o (IF includes(desc, "diffusers")
                         THEN <<"diffusers">> ELSE <<>>)
                     \o (IF includes(desc, "sentence-transformers")
                         THEN <<"sentence-transformers">> ELSE <<>>)
        RECURSIVE AddAll(_, _)
        AddAll(set, libs) ==
            IF libs = <<>> THEN set
            ELSE AddAll(setAdd(set, Head(libs)), Tail(libs))
        Library(lib) ==
            IF lib \in DOMAIN knownLibraries
            THEN <<[ref |-> "lib-" \o lib, type |-> "library",
                    name |-> knownLibraries[lib], category |-> "",
                    related |-> <<>>]>>
            ELSE <<>>
    IN  FlatMap(Library, AddAll(libraryDeps, FlatMap(Named, findings)))

RECURSIVE componentLoop(_, _, _)
\* the loop of createMLModelComponents over the findings: a component per
\* finding without modelInfo, a modelMap entry per new provider-model key
componentLoop(findings, acc, call) ==
    IF findings = <<>> THEN acc
    ELSE LET finding == Head(findings)
             id == generateShortId(call, acc.drawn + 1)
         IN  IF finding.modelInfo # <<>>
             THEN LET info == finding.modelInfo[1]
                      key == info.provider \o "-" \o info.modelName
                      component ==
                          [ref |-> "model-" \o id,
                           type |-> "machine-learning-model",
                           name |-> info.modelName,
                           category |-> modelCategory(info),
                           related |-> info.relatedModels]
                  IN  IF \E k \in 1..Len(acc.modelMap) : acc.modelMap[k].key = key
                      THEN componentLoop(Tail(findings), acc, call)
                      ELSE componentLoop(Tail(findings),
                               [acc EXCEPT
                                  !.modelMap = Append(@, [key |-> key,
                                                   component |-> component]),
                                  !.libraryDeps =
                                      IF info.provider = "HuggingFace"
                                      THEN setAdd(@, "transformers") ELSE @,
                                  !.drawn = @ + 1],
                               call)
             ELSE componentLoop(Tail(findings),
                      [acc EXCEPT
                         !.components = Append(@,
                             [ref |-> "component-" \o id,
                              type |-> IF finding.category = "dependencies"
                                       THEN "library" ELSE "framework",
                              name |-> finding.title, category |-> "",
                              related |-> <<>>]),
                         !.drawn = @ + 1],
                      call)

\* createMLModelComponents: the components (per finding, then the models,
\* then the libraries), the model components and the library components
createMLModelComponents(findings, call) ==
    LET acc == componentLoop(findings,
                   [components |-> <<>>, modelMap |-> <<>>,
                    libraryDeps |-> <<>>, drawn |-> 0], call)
        Component(entry) == entry.component
        models == Map(Component, acc.modelMap)
        libraryComponents == createLibraryComponents(acc.libraryDeps, findings)
    IN  [components |-> acc.components \o models \o libraryComponents,
         modelRefs |-> models,
         libraryRefs |-> libraryComponents]

\* the bom-ref of the repository component
mainRef == "repo-acme-app"

\* the dependency entries of the CycloneDX JSON document with every library
\* entry pointing back at the repository
jsonDependenciesLibraryBack(components, modelRefs, libraryRefs) ==
    LET Ref(c) == c.ref
        ForLibrary(lib) == [ref |-> lib.ref, dependsOn |-> <<mainRef>>]
        ForModel(model) == [ref |-> model.ref, dependsOn |-> <<>>]
    IN  <<[ref |-> mainRef, dependsOn |-> Map(Ref, components)]>>
        \o Map(ForModel, modelRefs) \o Map(ForLibrary, libraryRefs)

\* generateCycloneDXJson: the dependency entries of the document
jsonDependencies(components, modelRefs, libraryRefs) ==
    LET Ref(c) == c.ref
        libraryRefIds == Range(Map(Ref, libraryRefs))
        If(lib) == IF lib \in libraryRefIds THEN <<lib>> ELSE <<>>
        ForModel(model) ==
            [ref |-> model.ref,
             dependsOn |->
                 IF model.category \in {"text-generation", "feature-extraction"}
                 THEN If("lib-transformers") \o If("lib-pytorch")
                 ELSE IF model.category = "text-to-image"
                 THEN If("lib-diffusers") \o If("lib-pytorch")
                 ELSE <<>>]
        ForLibrary(lib) == [ref |-> lib.ref, dependsOn |-> <<>>]
    IN  <<[ref |-> mainRef, dependsOn |-> Map(Ref, components)]>>
        \o Map(ForModel, modelRefs) \o Map(ForLibrary, libraryRefs)

\* generateCycloneDXJson: the components and the dependencies of the document
generateCycloneDXJson(findings) ==
    LET made == createMLModelComponents(findings, "a")
    IN  [components |-> made.components,
         dependencies |-> jsonDependencies(made.components, made.modelRefs,
                                           made.libraryRefs)]

\* generateCycloneDXXml: the components are those of a first call of
\* createMLModelComponents, the entries of the models and the libraries
\* those of a second call
generateCycloneDXXml(findings) ==
    LET components == createMLModelComponents(findings, "b").components
        again == createMLModelComponents(findings, "c")
        Ref(c) == c.ref
        libraryRefIds == Range(Map(Ref, again.libraryRefs))
        If(lib) == IF lib \in libraryRefIds THEN <<lib>> ELSE <<>>
        ForModel(model) ==
            [ref |-> model.ref,
             dependsOn |->
                 IF model.category \in {"text-generation", "feature-extraction"}
                 THEN If("lib-transformers") \o If("lib-pytorch")
                 ELSE IF model.category = "text-to-image"
                 THEN If("lib-diffusers")
                 ELSE <<>>]
        ForLibrary(lib) == [ref |-> lib.ref, dependsOn |-> <<>>]
    IN  [components |-> components,
         dependencies |->
             <<[ref |-> mainRef, dependsOn |-> Map(Ref, components)]>>
             \o Map(ForModel, again.modelRefs)
             \o Map(ForLibrary, again.libraryRefs)]

\* generateExtendedAIBOM: the document embeds a CycloneDX JSON document
\* generated anew (its standard_bom); the metadata sections derived from the
\* same findings are left out
generateExtendedAIBOM(findings) ==
    LET made == createMLModelComponents(findings, "e")
    IN  [components |-> made.components,
         dependencies |-> jsonDependencies(made.components, made.modelRefs,
                                           made.libraryRefs)]

\* generateSPDX: an element per selected finding (an AI package for a
\* finding with modelInfo, a package otherwise) and a relationship from the
\* repository to each
generateSPDX(findings) ==
    LET Element(k) ==
            LET finding == findings[k]
                id == generateShortId("d", k)
            IN  IF finding.modelInfo # <<>>
                THEN [ref |-> "AIPackage-" \o id, type |-> "ai_AIPackage",
                      name |-> finding.modelInfo[1].modelName,
                      category |-> "",
                      related |-> finding.modelInfo[1].relatedModels]
                ELSE [ref |-> "Package-" \o id, type |-> "software_Package",
                      name |-> finding.title, category |-> "",
                      related |-> <<>>]
        RECURSIVE Upto(_)
        Upto(k) == IF k = 0 THEN <<>> ELSE Append(Upto(k - 1), Element(k))
        Relationship(element) ==
            [ref |-> mainRef, dependsOn |-> <<element.ref>>]
    IN  [components |-> Upto(Len(findings)),
         dependencies |-> Map(Relationship, Upto(Len(findings)))]

\* the state of the pipeline while a function is run on its own
Idle ==
    /\ token = FALSE
    /\ sbomAnswer = <<>>
    /\ resetAnswer = NoReset
    /\ searchDown = FALSE
    /\ idx = 1
    /\ allFindings = <<>>
    /\ codeResumeState = <<>>
    /\ codeDetectorPaused = FALSE
    /\ aiFilesFound = <<>>
    /\ sbomAvailable = FALSE
    /\ detectedDependencies = <<>>
    /\ parsedDocs = <<>>
    /\ log = <<>>
    /\ input = NoInput
    /\ result = <<>>
    /\ cu = NoCode
    /\ ul = NoLoop
    /\ issued = <<>>
    /\ cache = [p \in Paths |-> "none"]
    /\ rateLimitWaitUntil = 0
    /\ gf = NoFetch
    /\ faults = 0
    /\ mergeInput = <<>>
    /\ mergeOutput = <<>>

pipelineVars ==
    <<envVars, idx, allFindings, pauseVars, ctxVars, log, result, cu, ul,
      issued, input, fetchVars, gf, faults>>

BomInit ==
    /\ currentFindings \in analysedFindings
    /\ selectedFindings \in selectionsOf(currentFindings, 1)
    /\ generatedBOMs = NoBOMs
    /\ pc = "json"
    /\ Idle
    /\ response = NoResponse
    /\ callResult = <<>>

\* regenerateBOMs (src/js/ui.js) for a selection that is not empty: the
\* four documents, one after the other
GenerateJson ==
    /\ pc = "json"
    /\ generatedBOMs' = [generatedBOMs EXCEPT
                           !.json = <<generateCycloneDXJson(selectedFindings)>>]
    /\ pc' = "xml"
    /\ UNCHANGED <<pipelineVars, mergeVars, currentFindings, selectedFindings,
                   callVars>>

GenerateXml ==
    /\ pc = "xml"
    /\ generatedBOMs' = [generatedBOMs EXCEPT
                           !.xml = <<generateCycloneDXXml(selectedFindings)>>]
    /\ pc' = "spdx"
    /\ UNCHANGED <<pipelineVars, mergeVars, currentFindings, selectedFindings,
                   callVars>>

GenerateSpdx ==
    /\ pc = "spdx"
    /\ generatedBOMs' = [generatedBOMs EXCEPT
                           !.spdx = <<generateSPDX(selectedFindings)>>]
    /\ pc' = "extended"
    /\ UNCHANGED <<pipelineVars, mergeVars, currentFindings, selectedFindings,
                   callVars>>

GenerateExtended ==
    /\ pc = "extended"
    /\ generatedBOMs' = [generatedBOMs EXCEPT
                           !.extended =
                               <<generateExtendedAIBOM(selectedFindings)>>]
    /\ pc' = "generated"
    /\ UNCHANGED <<pipelineVars, mergeVars, currentFindings, selectedFindings,
                   callVars>>

\* where regenerateBOMs goes for a selection: it returns at once when
\* nothing is selected, leaving generatedBOMs as it is
regenerateFor(selected) == IF Len(selected) = 0 THEN "generated" ELSE "json"

\* the user checks or unchecks findings (a checkbox, "select all" or
\* "deselect all"); the handler calls regenerateBOMs
SelectionChange ==
    /\ pc = "generated"
    /\ \E selected \in selectionsOf(currentFindings, 0) :
          /\ selected # selectedFindings
          /\ selectedFindings' = selected
          /\ pc' = regenerateFor(selected)
    /\ UNCHANGED <<pipelineVars, mergeVars, currentFindings, generatedBOMs,
                   callVars>>

BomNext ==
    \/ GenerateJson
    \/ GenerateXml
    \/ GenerateSpdx
    \/ GenerateExtended
    \/ SelectionChange

BomSpec == BomInit /\ [][BomNext]_vars

(***************************************************************************)
(* searchCodeInRepo (src/js/github-api.js) on its own: what it returns for *)
(* what fetch does.                                                        *)
(***************************************************************************)
\* the status codes of the answers of the search service in the model
Statuses == {200, 403, 429, 404, 422, 500, 503}

\* what a request may meet: fetch rejects (thrown = "fetch"), or a response
\* arrives with a status, an X-RateLimit-Remaining header ("" for absent)
\* and a body: a search result with items, an object without items, the
\* JSON value null, or text that is not JSON
SearchResponses ==
    {[thrown |-> "fetch", status |-> 0, remaining |-> "", body |-> ""]}
    \cup [thrown : {""}, status : Statuses, remaining : {"", "0", "5", "30"},
          body : {"items", "no items", "null", "malformed"}]

RECURSIVE parseInt(_)
\* parseInt on a string of decimal digits
parseInt(s) ==
    IF s = "" THEN 0
    ELSE 10 * parseInt(SubSeq(s, 1, Len(s) - 1))
         + (IndexIn(SubSeq(s, Len(s), Len(s)), Digits, 1) - 1)

\* searchCodeInRepo with the errors of the body left uncaught
searchCodeInRepoUncaught(r) ==
    IF r.thrown = "fetch" THEN [kind |-> "null"]
    ELSE LET remaining == parseInt(IF r.remaining # "" THEN r.remaining ELSE "0")
             ok == r.status >= 200 /\ r.status <= 299
         IN  IF ~ok
             THEN IF r.status = 403 \/ r.status = 429
                  THEN [kind |-> "false"] ELSE [kind |-> "null"]
             ELSE IF r.body \in {"malformed", "null"}
             THEN [kind |-> "thrown"]
             ELSE [kind |-> "result",
                   items |-> IF r.body = "items" THEN <<"app.py">> ELSE <<>>,
                   remaining |-> remaining]

\* searchCodeInRepo: false for a rate-limited response, null for another
\* failure, the items with the rate limit otherwise; the catch block turns
\* every error into null
searchCodeInRepo(r) ==
    IF r.thrown = "fetch" THEN [kind |-> "null"]
    ELSE LET remaining == parseInt(IF r.remaining # "" THEN r.remaining ELSE "0")
             ok == r.status >= 200 /\ r.status <= 299
         IN  IF ~ok
             THEN IF r.status = 403 \/ r.status = 429
                  THEN [kind |-> "false"] ELSE [kind |-> "null"]
             ELSE IF r.body \in {"malformed", "null"}
             THEN [kind |-> "null"]
             ELSE [kind |-> "result",
                   items |-> IF r.body = "items" THEN <<"app.py">> ELSE <<>>,
                   remaining |-> remaining]

CallInit ==
    /\ response \in SearchResponses
    /\ callResult = <<>>
    /\ pc = "call"
    /\ Idle
    /\ currentFindings = <<>>
    /\ selectedFindings = <<>>
    /\ generatedBOMs = NoBOMs

\* the function is called and returns
SearchCall ==
    /\ pc = "call"
    /\ callResult' = <<searchCodeInRepo(response)>>
    /\ pc' = "called"
    /\ UNCHANGED <<pipelineVars, mergeVars, bomVars, response>>

CallNext == SearchCall

CallSpec == CallInit /\ [][CallNext]_vars

(***************************************************************************)
(* Properties of the pipeline.  They are stated on what a run leaves       *)
(* behind: the console lines, the search requests sent, the accumulated    *)
(* findings and the returned result.                                       *)
(***************************************************************************)
\* the positions of the console lines of one kind
logIdx(ev) == {k \in 1..Len(log) : log[k].ev = ev}

hasLine(ev, unit) == \E k \in 1..Len(log) : log[k].ev = ev /\ log[k].unit = unit

\* the names of the units invoked by the main pass, in the order of invocation
invokedUnits ==
    LET IsRunning(e) == e.ev = "running"
        Name(e) == e.unit
    IN  Map(Name, SelectSeq(log, IsRunning))

\* the query texts of the requests an invocation sent that were not answered
\* with a rate-limit response
executedBy(inv) ==
    LET Executed(r) == r.inv = inv /\ r.answer # "limited"
        Text(r) == r.query
    IN  Map(Text, SelectSeq(issued, Executed))

\* the query texts planned by the invocation of the main pass
plannedQueries ==
    LET Text(q) == q.query
    IN  Map(Text, buildSearches(sbomAvailable, detectedDependencies))

\* the number of queries the paused invocation of the main pass had executed
pausedAt == log[CHOOSE k \in logIdx("paused") : TRUE].n

\* C1: if the code-search unit pauses after executing k of its n planned
\* queries and the resumed invocation runs to its end, the resumed invocation
\* executes exactly the remaining n-k planned queries, each once, and the two
\* invocations together execute every planned query once, none twice and
\* none skipped.
C1_RemainingQueriesOnce ==
    (pc = "done" /\ logIdx("paused") # {} /\ hasLine("completed", "resumed"))
    => /\ executedBy("resumed")
              = SubSeq(plannedQueries, pausedAt + 1, Len(plannedQueries))
       /\ executedBy("main") \o executedBy("resumed") = plannedQueries

\* C2: a paused result of the code unit in the main pass makes the
\* orchestrator re-invoke it exactly once, after all 12 units have had their
\* main-pass invocation; without a pause there is no re-invocation, and a
\* pause reported by the resumed invocation causes no further one.
C2_ResumedOnce ==
    LET resuming == logIdx("resuming")
        running == logIdx("running")
        paused == logIdx("paused")
    IN  /\ Cardinality(resuming) <= 1
        /\ \A r \in resuming :
              /\ Cardinality(running) = 12
              /\ \A k \in running : k < r
              /\ \E p \in paused : p < r
              /\ idx > Len(detectors)
        /\ cu.inv = "resumed" => resuming # {}
        /\ (pc = "done" /\ paused # {}) => Cardinality(resuming) = 1
        /\ (pc = "done" /\ paused = {}) => resuming = {}

\* a finished run whose resumed invocation was rate-limited again
C2_Witness ==
    /\ pc = "done"
    /\ hasLine("exhausted", "resumed")
    /\ Cardinality(logIdx("resuming")) = 1

\* a step in which an invocation throws: the catch block logs the error
ErrorStep ==
    \E k \in (Len(log) + 1)..Len(log') : log'[k].ev = "error"

\* C3: when a unit throws, in the main pass or in the resumption, the
\* findings accumulated before are unchanged, the later units are still
\* invoked and analyzeRepository returns a result.
C3_ErrorIsolated ==
    /\ [][ErrorStep => allFindings' = allFindings]_vars
    /\ [](pc = "done" => /\ result # <<>>
                         /\ \A k \in 1..Len(detectors) :
                               hasLine("running", detectors[k].name))

\* a finished run in which the resumed invocation threw after findings had
\* been accumulated
C3_Witness ==
    /\ pc = "done"
    /\ hasLine("error", "Code")
    /\ logIdx("resuming") # {}
    /\ allFindings # <<>>
    /\ result # <<>>

\* the order of the units the specification fixes
UnitOrder ==
    <<"Dependencies", "Code", "Metadata", "AI Models", "Configuration",
      "CI/CD", "Model Files", "Prompts", "Hardware", "Infrastructure",
      "Documentation", "Risk Assessment">>

\* C4: the main pass invokes each of the 12 units exactly once in the fixed
\* order, whatever earlier units return and whether or not they fail.
C4_FixedOrder ==
    LET invoked == invokedUnits
    IN  /\ Len(invoked) <= Len(UnitOrder)
        /\ invoked = SubSeq(UnitOrder, 1, Len(invoked))
        /\ idx > Len(detectors) => invoked = UnitOrder
        /\ pc \in {"resume", "done"} => idx > Len(detectors)

\* a finished run in which the first unit failed and the code unit paused
C4_Witness ==
    /\ pc = "done"
    /\ hasLine("error", "Dependencies")
    /\ logIdx("paused") # {}
    /\ invokedUnits = UnitOrder

\* C5: every run of analyzeRepository terminates, whatever the services
\* answer.
C5_Terminates == <>(pc = "done")

\* the lines analyzeRepository itself writes once it has re-invoked the
\* code unit (a wait is written before the re-invocation)
resumptionLines ==
    LET r == CHOOSE k \in logIdx("resuming") : TRUE
        OfAnalyzer(e) == e.ev \in {"resumed", "error", "complete"}
    IN  SelectSeq(SubSeq(log, r + 1, Len(log)), OfAnalyzer)

\* the lines analyzeRepository writes for a resumption that ran every
\* remaining query and added n findings
completeResumptionLines(n) == <<L("resumed", "Code", n), L("complete", "", 0)>>

C7_MergeById ==
    [][(pc = "search" /\ cu.inv = "resumed" /\ pc' = "done")
       => LET returned == convertSearchToFindings(cu.sdkFindings)
              n == Len(allFindings)
              appended == SubSeq(allFindings', n + 1, Len(allFindings'))
          IN  /\ Len(allFindings') >= n
              /\ SubSeq(allFindings', 1, n) = allFindings
              /\ \A f \in Range(appended) :
                    /\ f \in Range(returned)
                    /\ \A k \in 1..n : allFindings[k].id # f.id
              /\ \A f \in Range(returned) :
                    (\A k \in 1..n : allFindings[k].id # f.id)
                    => f \in Range(appended)]_vars

\* a finished run whose resumed invocation returned two findings of which
\* one had the id of an accumulated finding and one was appended
C7_Witness ==
    /\ pc = "done"
    /\ hasLine("found", "resumed")
    /\ \E k \in logIdx("found") : log[k].unit = "resumed" /\ log[k].n = 2
    /\ \E k \in logIdx("resumed") : log[k].n = 1

UniqueIds(findings) ==
    \A j, k \in 1..Len(findings) : findings[j].id = findings[k].id => j = k

\* C8: no two findings share an id, neither in the accumulated list nor in
\* the list analyzeRepository returns.
C8_UniqueIds ==
    /\ UniqueIds(allFindings)
    /\ result # <<>> => UniqueIds(result[1].findings)

(***************************************************************************)
(* Properties of the reconciler.                                           *)
(***************************************************************************)
\* the positions of the dependency findings for a package in a list
dependencyIdx(findings, name) ==
    {k \in 1..Len(findings) : /\ isDependencyFinding(findings[k])
                              /\ findings[k].dependencyInfo[1].name = name}

\* the positions of the code findings with a title in a list
codeIdx(findings, title) ==
    {k \in 1..Len(findings) : /\ findings[k].category = "code"
                              /\ findings[k].title = title}

\* does the list part occur in the list whole from position from on
occursFrom(part, whole, from) ==
    \E j \in from..(Len(whole) - Len(part) + 1) :
       SubSeq(whole, j, j + Len(part) - 1) = part

dependencyPart(findings) ==
    LET IsDependency(f) == f.category = "dependencies"
    IN  SelectSeq(findings, IsDependency)

\* the list without its k-th element
without(findings, k) ==
    SubSeq(findings, 1, k - 1) \o SubSeq(findings, k + 1, Len(findings))

\* C10: a code finding whose title contains "compatible" is never merged
\* into a dependency finding: it is in the output unchanged, and the
\* dependency findings of the output are those the reconciler gives without
\* it.
C10_CompatibleNotMerged ==
    mergeOutput # <<>>
    => \A k \in 1..Len(mergeInput) :
          (mergeInput[k].category = "code"
              /\ includes(mergeInput[k].title, "compatible"))
          => /\ mergeInput[k] \in Range(mergeOutput[1])
             /\ dependencyPart(mergeOutput[1])
                    = dependencyPart(
                          mergeDependencyAndCodeFindings(without(mergeInput, k)))

\* the reconciler has been given an openai dependency finding, a code
\* finding it merges into it and the finding of the compatible endpoint
C10_Witness ==
    /\ mergeOutput # <<>>
    /\ dependencyIdx(mergeInput, "openai") # {}
    /\ codeIdx(mergeInput, "OpenAI API Endpoint Detected") # {}
    /\ codeIdx(mergeInput, "OpenAI-compatible API Endpoint Detected") # {}
    /\ \E k \in 1..Len(mergeOutput[1]) :
          mergeOutput[1][k].title = "openai - Usage Detected"

\* the dependency finding has code usage in the list
hasCodeUsage(findings, f) ==
    \E k \in 1..Len(findings) :
       codeMatchesDep(findings[k], lowerName[f.dependencyInfo[1].name])

\* the code finding belongs to a dependency finding of the list
hasDependency(findings, g) ==
    \E k \in 1..Len(findings) :
       /\ isDependencyFinding(findings[k])
       /\ codeMatchesDep(g, lowerName[findings[k].dependencyInfo[1].name])

\* C11: every dependency finding that matches no code finding, every code
\* finding that matches no dependency finding and every finding of another
\* category is in the output of the reconciler exactly as it was in the
\* input.
C11_UnmatchedPassThrough ==
    mergeOutput # <<>>
    => \A k \in 1..Len(mergeInput) :
          LET f == mergeInput[k]
          IN  (\/ isDependencyFinding(f) /\ ~hasCodeUsage(mergeInput, f)
               \/ f.category = "code" /\ ~hasDependency(mergeInput, f)
               \/ f.category \notin {"dependencies", "code"})
              => f \in Range(mergeOutput[1])

\* C12: the output of the reconciler has at most as many findings as its
\* input.
C12_NoMoreFindings ==
    mergeOutput # <<>> => Len(mergeOutput[1]) <= Len(mergeInput)

\* the reconciler has merged code findings into a dependency finding and
\* returned fewer findings than it was given
C12_Witness ==
    /\ mergeOutput # <<>>
    /\ Len(mergeInput) = MaxMergeInput
    /\ Len(mergeOutput[1]) < Len(mergeInput)
    /\ \E k \in 1..Len(mergeOutput[1]) : mergeOutput[1][k].codeUsage # <<>>

\* the weights of the findings of a list, added up
WeightOf(findings) ==
    LET RECURSIVE Upto(_)
        Upto(k) == IF k = 0 THEN 0 ELSE Upto(k - 1) + findings[k].weight
    IN  Upto(Len(findings))

\* C13: the score of the returned result is the sum of the weights of the
\* returned findings, and every finding of the governance category, in the
\* collected list and in the result, has weight 0.
C13_ScoreIsWeightSum ==
    /\ \A k \in 1..Len(allFindings) :
          allFindings[k].category = "governance" => allFindings[k].weight = 0
    /\ result # <<>>
       => /\ result[1].score = WeightOf(result[1].findings)
          /\ \A k \in 1..Len(result[1].findings) :
                result[1].findings[k].category = "governance"
                => result[1].findings[k].weight = 0

\* a run has returned a result in which code findings were merged into a
\* dependency finding and which holds a governance finding and a positive
\* score
C13_Witness ==
    /\ result # <<>>
    /\ result[1].score > 0
    /\ Len(result[1].findings) < Len(allFindings)
    /\ \E k \in 1..Len(result[1].findings) :
          result[1].findings[k].category = "governance"
    /\ \E k \in 1..Len(result[1].findings) :
          result[1].findings[k].codeUsage # <<>>

(***************************************************************************)
(* Properties of the BOM generators.                                       *)
(***************************************************************************)
\* the formats of the documents
Formats == {"json", "xml", "spdx"}

\* the edges of a document, one per entry of a dependsOn list
edgeList(doc) ==
    LET OfEntry(e) == LET To(t) == <<e.ref, t>> IN Map(To, e.dependsOn)
    IN  FlatMap(OfEntry, doc.dependencies)

RECURSIVE reach(_, _, _)
\* the references reached from the set S over at most n edges
reach(edges, S, n) ==
    IF n = 0 THEN S
    ELSE reach(edges, S \cup {e[2] : e \in {x \in edges : x[1] \in S}}, n - 1)

\* the graph of a document is acyclic, every component has exactly one
\* incoming edge from the root, no library has an outgoing edge
wellFormed(doc) ==
    LET list == edgeList(doc)
        edges == Range(list)
    IN  /\ \A e \in edges : e[1] \notin reach(edges, {e[2]}, Cardinality(edges))
        /\ \A k \in 1..Len(doc.components) :
              /\ Cardinality({j \in 1..Len(list) :
                                 list[j] = <<mainRef, doc.components[k].ref>>}) = 1
              /\ Cardinality({j \in 1..Len(doc.components) :
                                 doc.components[j].ref = doc.components[k].ref}) = 1
              /\ doc.components[k].type \in {"library", "software_Package"}
                 => \A e \in edges : e[1] # doc.components[k].ref

\* C14: in every generated document the relationship set is acyclic, every
\* component other than the root has exactly one incoming edge from the
\* root, and no library component has an outgoing edge.
C14_GraphWellFormed ==
    \A format \in Formats :
       generatedBOMs[format] # <<>> => wellFormed(generatedBOMs[format][1])

\* the three documents are generated and the CycloneDX JSON document has a
\* model component that depends on a library component
C14_Witness ==
    /\ \A format \in Formats : generatedBOMs[format] # <<>>
    /\ \E j, k \in 1..Len(generatedBOMs.json[1].components) :
          LET doc == generatedBOMs.json[1]
          IN  /\ doc.components[j].type = "machine-learning-model"
              /\ doc.components[k].type = "library"
              /\ <<doc.components[j].ref, doc.components[k].ref>>
                     \in Range(edgeList(doc))

\* what a reference of a document stands for, identifiers left aside
denotes(doc, ref) ==
    IF ref = mainRef THEN <<"root">>
    ELSE IF \E k \in 1..Len(doc.components) : doc.components[k].ref = ref
    THEN LET c == doc.components[CHOOSE k \in 1..Len(doc.components) :
                                    doc.components[k].ref = ref]
         IN  <<IF c.type \in {"machine-learning-model", "ai_AIPackage"}
               THEN "model" ELSE "other", c.name>>
    ELSE <<"no component">>

\* the components and the edges of a document, identifiers left aside
graphOf(doc) ==
    [components |-> {denotes(doc, doc.components[k].ref) :
                        k \in 1..Len(doc.components)},
     edges |-> {<<denotes(doc, e[1]), denotes(doc, e[2])>> :
                   e \in Range(edgeList(doc))}]

\* C15: for the same selected findings the CycloneDX JSON, CycloneDX XML
\* and SPDX documents have the same set of components and the same set of
\* edges.
C15_SameGraph ==
    (\A format \in Formats : generatedBOMs[format] # <<>>)
    => /\ graphOf(generatedBOMs.json[1]) = graphOf(generatedBOMs.xml[1])
       /\ graphOf(generatedBOMs.json[1]) = graphOf(generatedBOMs.spdx[1])

\* the selection holds findings of the given categories for the model
surfacedBy(findings, provider, modelName, categories) ==
    \A c \in categories :
       \E k \in 1..Len(findings) :
          /\ findings[k].category = c
          /\ findings[k].modelInfo # <<>>
          /\ findings[k].modelInfo[1].provider = provider
          /\ findings[k].modelInfo[1].modelName = modelName

C17_SearchReturnValues ==
    callResult # <<>>
    => LET arrived == response.thrown = ""
           failed == arrived /\ ~(response.status \in 200..299)
           limited == failed /\ response.status \in {403, 429}
           threw == \/ ~arrived
                    \/ arrived /\ ~failed
                         /\ response.body \in {"malformed", "null"}
           kind == callResult[1].kind
       IN  /\ kind \in {"false", "null", "result"}
           /\ kind = "false" <=> limited
           /\ kind = "null" <=> (failed /\ ~limited) \/ threw
           /\ kind = "result" <=> ~failed /\ ~threw

\* the function has returned for a successful response whose body could
\* not be read
C17_Witness ==
    /\ callResult # <<>>
    /\ response.thrown = ""
    /\ response.status = 200
    /\ response.body = "malformed"
    /\ callResult[1].kind = "null"

(***************************************************************************)
(* Properties of the file-content accessor.                                *)
(***************************************************************************)
\* C18: the accessor stores a value for a path at most once and never
\* changes or removes it; a call that completes has stored what it returns;
\* a call for a path with a stored value returns that value at once and
\* sends no request.
C18_CacheWriteOnce ==
    [][/\ \A p \in Paths : cache[p] # "none" => cache'[p] = cache[p]
       /\ (pc = "gf" /\ pc' # "gf")
          => /\ gf'.val # "none"
             /\ cache'[gf.path] = gf'.val
       /\ (pc = "gf" /\ cache[gf.path] # "none")
          => /\ pc' = gf.ret
             /\ gf'.val = cache[gf.path]
             /\ ~gf'.sent]_vars

\* a call has returned a failure stored by an earlier call for the path
\* without sending a request
C18_Witness ==
    /\ pc # "gf"
    /\ gf # NoFetch
    /\ ~gf.sent
    /\ gf.val = "null"
    /\ cache[gf.path] = "null"

(***************************************************************************)
(* Properties of the wait before the resumption.                           *)
(***************************************************************************)
\* C19: before it re-invokes the code unit the orchestrator waits only when
\* the recorded reset time is in the future and less than 120000 ms away,
\* and then for that time plus 1000 ms and no longer; in every other case
\* it re-invokes the unit at once, no time passing.
C19_BoundedResumeWait ==
    [][pc = "resume"
       => LET resetTime == codeResumeState[1].lastRateLimit.resetTime
              added == SubSeq(log', Len(log) + 1, Len(log'))
              waits == {k \in 1..Len(added) : added[k].ev = "waiting"}
              near == resetTime # NoReset /\ resetTime > 0 /\ resetTime < 120000
          IN  /\ waits # {} <=> near
              /\ \A k \in waits : /\ added[k].n <= resetTime + 1000
                                   /\ added[k].n > resetTime
              /\ Cardinality(waits) <= 1
              /\ near => /\ codeResumeState'[1].lastRateLimit.resetTime = 0
                          /\ rateLimitWaitUntil'
                                = elapse(rateLimitWaitUntil, resetTime + 1000)
              /\ ~near => /\ codeResumeState' = codeResumeState
                           /\ rateLimitWaitUntil' = rateLimitWaitUntil]_vars

\* a run has waited 31 s before a resumption that was then carried out
C19_Witness ==
    /\ pc = "done"
    /\ \E k \in 1..Len(log) : log[k] = L("waiting", "Code", 31000)
    /\ \E k \in 1..Len(issued) : issued[k].inv = "resumed"

\* a run has resumed at once although a reset 120 s ahead was recorded
C19_WitnessNoWait ==
    /\ pc = "search"
    /\ cu.inv = "resumed"
    /\ codeResumeState # <<>>
    /\ codeResumeState[1].lastRateLimit.resetTime = 120000
    /\ \A k \in 1..Len(log) : log[k].ev # "waiting"

(***************************************************************************)
(* Properties of the search loop.                                          *)
(***************************************************************************)
\* C20: within one invocation, once a search request was answered with the
\* rate-limit signal or with a result reporting no remaining quota, the
\* code unit sends no further search request: the invocation ends with
\* that answer, logging the exhaustion, and the invocation of the main pass
\* leaves the pause and a resume state with the orchestrator.
C20_PauseStopsQueries ==
    [][Len(issued') > Len(issued)
       => LET new == issued'[Len(issued')]
              pausing == new.answer \in {"limited", "exhausted"}
              added == SubSeq(log', Len(log) + 1, Len(log'))
          IN  /\ \A k \in 1..Len(issued) :
                    issued[k].inv = new.inv
                    => issued[k].answer \notin {"limited", "exhausted"}
              /\ pausing
                 => /\ cu' = NoCode
                    /\ pc' \notin {"search", "item"}
                    /\ \E k \in 1..Len(added) :
                          added[k] = L("exhausted", new.inv, cu.i)
                    /\ new.inv = "main"
                       => /\ codeDetectorPaused'
                          /\ codeResumeState' # <<>>
                          /\ codeResumeState'[1].sdkFindings = cu.sdkFindings
                          /\ codeResumeState'[1].lastSearchIndex
                                 \in {cu.i, cu.i + 1}]_vars

\* the main invocation has paused on an answer without remaining quota
\* after other queries, and the resumed invocation has been stopped by the
\* rate-limit signal
C20_Witness ==
    /\ pc = "done"
    /\ \E j, k \in 1..Len(issued) :
          /\ 1 < j
          /\ j < k
          /\ issued[j].inv = "main"
          /\ issued[j].answer = "exhausted"
          /\ issued[k].inv = "resumed"
          /\ issued[k].answer = "limited"

(***************************************************************************)
(* Properties of the resumed invocation.                                   *)
(***************************************************************************)
\* the plan of the invocation of the main pass: the code unit is handed
\* sbomAvailable and detectedDependencies as the dependency unit left them
mainPlan == buildSearches(sbomAvailable, detectedDependencies)

\* C21: the resumed invocation plans the same ordered query list as the
\* invocation that paused, so the index stored in the resume state denotes
\* the same query in both.
C21_SamePlanOnResume ==
    cu.inv = "resumed"
    => /\ cu.searches = mainPlan
       /\ \A k \in 1..Len(cu.searches) :
             k > codeResumeState[1].lastSearchIndex
             => /\ k <= Len(mainPlan)
                /\ cu.searches[k] = mainPlan[k]

\* the step in which the resumed invocation returns to analyzeRepository
ResumedReturns == pc = "search" /\ cu.inv = "resumed" /\ pc' = "done"

\* the finding g carries the evidence e of the code finding f: it is f's
\* finding, or a unified finding that took e over as a code location
carries(g, f, e) ==
    \/ g.id = f.id /\ e \in Range(g.evidence)
    \/ g.codeUsage # <<>> /\ e \in Range(g.codeUsage[1].locations)

\* C22: the evidence the resumed invocation collected (the evidence of its
\* findings that the paused invocation's findings did not have) is in the
\* findings the run returns, also when its provider had a finding before
\* the pause.
C22_ResumedEvidenceKept ==
    [][ResumedReturns
       => LET before == convertSearchToFindings(codeResumeState[1].sdkFindings)
              returned == convertSearchToFindings(cu.sdkFindings)
              Old(f, e) ==
                  \E g \in Range(before) : g.id = f.id /\ e \in Range(g.evidence)
          IN  \A f \in Range(returned) :
                 \A e \in Range(f.evidence) :
                    ~Old(f, e)
                    => \E g \in Range(result'[1].findings) : carries(g, f, e)]_vars

(***************************************************************************)
(* Properties of the evidence accumulator.                                 *)
(***************************************************************************)
\* the step in which an invocation of searchCodeViaAPI pauses or finishes
SearchReturns == pc = "search" /\ cu.inv # "none" /\ cu'.inv = "none"

\* the accumulator holds the item under the provider of its query
accumulated(sdk, provider, item) ==
    \E k \in 1..Len(sdk) :
       /\ sdk[k].key = provider \o "-search"
       /\ \E c \in {"content", "null"} : fileInfo(item, c) \in Range(sdk[k].files)

\* C23: when an invocation pauses or finishes, the accumulator holds the
\* items of every query of the invocation that was answered with a result,
\* the query whose answer reported no remaining quota included.
C23_AnsweredItemsAccumulated ==
    [][SearchReturns
       => \A j \in 1..Len(issued') :
             (issued'[j].inv = cu.inv /\ issued'[j].answer \in {"ok", "exhausted"})
             => \A q \in Range(cu.searches) :
                   q.query = issued'[j].query
                   => \A item \in Range(searchItems(q.query)) :
                         accumulated(cu.sdkFindings, q.provider, item)]_vars

(***************************************************************************)
(* Properties of the number of search requests.                            *)
(***************************************************************************)
\* the requests answered otherwise than with the rate-limit signal
answeredRequests == {k \in 1..Len(issued) : issued[k].answer # "limited"}

\* C24 (as stated): over one run, the invocation of the main pass and the
\* resumed invocation together send at most 10 search requests.
C24_AtMostTenRequests == Len(issued) <= 10

\* C24 (amended): every plan has at most 10 queries; over one run at most 10
\* requests are answered otherwise than with the rate-limit signal, and at
\* most 11 requests are sent in all: the request that was refused at the
\* pause is sent once more by the resumed invocation.
C24_AtMostTenAnswered ==
    /\ Len(cu.searches) <= 10
    /\ Cardinality(answeredRequests) <= 10
    /\ Len(issued) <= 11
    /\ Len(issued) = 11
       => \E k \in 1..Len(issued) :
             issued[k].inv = "main" /\ issued[k].answer = "limited"

\* finished runs with 11 requests, 10 of them answered: one whose main pass
\* used the smart plan and one whose main pass used the fallback plan
C24_Witness ==
    /\ pc = "done"
    /\ Len(issued) = 11
    /\ Cardinality(answeredRequests) = 10
    /\ sbomAvailable

C24_WitnessFallback ==
    /\ pc = "done"
    /\ Len(issued) = 11
    /\ Cardinality(answeredRequests) = 10
    /\ ~sbomAvailable

(***************************************************************************)
(* Properties of the fallback to the file scan.                            *)
(***************************************************************************)
\* the step in which codeDetector is invoked by the main pass and starts
CodeStarts == pc = "loop" /\ detectors[idx].name = "Code" /\ cu'.inv = "main"

\* every search request of the run so far has failed
allSearchesFailed(requests) ==
    /\ requests # <<>>
    /\ \A k \in 1..Len(requests) : requests[k].answer = "failed"

\* codeDetector is fetching the first of the source files to scan
scanStarted(p, frame) ==
    /\ p = "gf"
    /\ frame.ret = "scan"
    /\ frame.path = codeFiles[1]
    /\ Len(codeFiles) <= ScanLimit

\* C25: when no token is supplied, and when every search request has
\* failed, the code unit goes on to scan the source files (at most 200).
C25_FallbackScan ==
    [][/\ (CodeStarts /\ ~token) => scanStarted(pc', gf')
       /\ (SearchReturns /\ allSearchesFailed(issued'))
          => scanStarted(pc', gf')]_vars

(***************************************************************************)
(* Properties of the dependency entries of the CycloneDX documents.        *)
(***************************************************************************)
\* the document has an edge from the component with the first reference to
\* the component with the second
hasEdge(doc, from, to) ==
    \E k \in 1..Len(doc.dependencies) :
       /\ doc.dependencies[k].ref = from
       /\ to \in Range(doc.dependencies[k].dependsOn)

hasComponent(doc, ref) == \E c \in Range(doc.components) : c.ref = ref

\* the libraries a task category implies
impliedLibraries(category) ==
    IF category \in {"text-generation", "embeddings", "feature-extraction"}
    THEN {"lib-transformers", "lib-pytorch"}
    ELSE IF category = "text-to-image" THEN {"lib-diffusers"}
    ELSE {}

\* C26: in the CycloneDX documents every model component of a text
\* generation or embedding category has an edge to each of the components
\* lib-transformers and lib-pytorch that is present, and every
\* text-to-image model component has an edge to lib-diffusers when present.
C26_ModelLibraryEdges ==
    \A fmt \in {"json", "xml"} :
       generatedBOMs[fmt] # <<>>
       => LET doc == generatedBOMs[fmt][1]
          IN  \A c \in Range(doc.components) :
                 c.type = "machine-learning-model"
                 => \A lib \in impliedLibraries(c.category) :
                       hasComponent(doc, lib) => hasEdge(doc, c.ref, lib)

(***************************************************************************)
(* Properties of the library components.                                   *)
(***************************************************************************)
\* the positions of the components of a document that stand for a library:
\* the inferred component lib-<name>, and the component made for a
\* dependency finding that declares the package <name>
inferredAs(doc, lib) ==
    {k \in 1..Len(doc.components) : doc.components[k].ref = "lib-" \o lib}

declaredAs(doc, lib) ==
    {k \in 1..Len(doc.components) :
        /\ doc.components[k].type \in {"library", "software_Package"}
        /\ doc.components[k].name = "Dependency: " \o lib}

\* C27 (as stated): a library is at most one component of a document, also
\* when a selected dependency finding declares it and a model implies it.
C27_LibraryOnce ==
    \A fmt \in Formats :
       generatedBOMs[fmt] # <<>>
       => \A lib \in DOMAIN knownLibraries :
             Cardinality(inferredAs(generatedBOMs[fmt][1], lib)
                         \cup declaredAs(generatedBOMs[fmt][1], lib)) <= 1

\* C27 (amended): a library is at most one inferred component lib-<name> of
\* a document generated for the selection, also when a selected dependency
\* finding names it and a model implies it; the dependency finding has its
\* own component besides.
C27_InferredLibraryOnce ==
    \A fmt \in Formats :
       (pc = "generated" /\ selectedFindings # <<>>)
       => \A lib \in DOMAIN knownLibraries :
             /\ Cardinality(inferredAs(generatedBOMs[fmt][1], lib)) <= 1
             /\ Cardinality(declaredAs(generatedBOMs[fmt][1], lib))
                   <= Cardinality({k \in 1..Len(selectedFindings) :
                                     selectedFindings[k] = transformersFinding})

\* the CycloneDX documents of a selection with the transformers dependency
\* and a HuggingFace model: the library is declared and implied, and is
\* one inferred component
C27_Witness ==
    /\ pc = "generated"
    /\ transformersFinding \in Range(selectedFindings)
    /\ \E f \in Range(selectedFindings) :
          f.modelInfo # <<>> /\ f.modelInfo[1].provider = "HuggingFace"
    /\ \A fmt \in {"json", "xml"} :
          /\ Cardinality(inferredAs(generatedBOMs[fmt][1], "transformers")) = 1
          /\ Cardinality(declaredAs(generatedBOMs[fmt][1], "transformers")) = 1

\* the references a dependency entry may use: the root and the components
listedRefs(doc) == {mainRef} \cup {c.ref : c \in Range(doc.components)}

\* C28: in the CycloneDX documents every reference of the dependency
\* section, an entry's own and those it depends on, is the root reference
\* or the bom-ref of a component of the same document.
C28_ReferencesResolve ==
    \A fmt \in {"json", "xml"} :
       generatedBOMs[fmt] # <<>>
       => LET doc == generatedBOMs[fmt][1]
          IN  \A d \in Range(doc.dependencies) :
                 /\ d.ref \in listedRefs(doc)
                 /\ Range(d.dependsOn) \subseteq listedRefs(doc)

(***************************************************************************)
(* Properties of the stored documents.                                     *)
(***************************************************************************)
\* the four documents generated from a selection
documentsOf(selected) ==
    [json |-> <<generateCycloneDXJson(selected)>>,
     xml |-> <<generateCycloneDXXml(selected)>>,
     spdx |-> <<generateSPDX(selected)>>,
     extended |-> <<generateExtendedAIBOM(selected)>>]

\* C29: when regenerateBOMs has returned after a change of the selection,
\* each of the four stored documents is the document of the current
\* selection; none is the document of an earlier selection.
C29_DocumentsOfCurrentSelection ==
    pc = "generated" => generatedBOMs = documentsOf(selectedFindings)

(***************************************************************************)
(* Properties of the input built for a unit.                               *)
(***************************************************************************)
\* the fields of the pipeline context
contextFields ==
    {"allFindings", "aiFilesFound", "sbomAvailable", "detectedDependencies",
     "parsedDocs"}

\* the fields of the pipeline context a capability flag stands for
flagFields(flag) ==
    CASE flag = "needsAllFindings" -> {"allFindings"}
      [] flag = "needsDependencies" -> {"sbomAvailable", "detectedDependencies"}
      [] flag = "needsParsedDocs" -> {"parsedDocs"}
      [] flag = "needsAIFiles" -> {"aiFilesFound"}
      [] OTHER -> {}

\* the fields the unit of a name declares with its flags
declaredFields(name) ==
    UNION {flagFields(flag) :
              flag \in UNION {d.flags : d \in {e \in Range(detectors) :
                                                 e.name = name}}}

\* C30: the input passed to a unit holds the base repository context and, of
\* the fields of the pipeline context, exactly those for which the unit
\* declares a capability flag.
C30_DeclaredFieldsOnly ==
    input # NoInput
    => /\ baseInput \subseteq input.fields
       /\ input.fields \cap contextFields = declaredFields(input.unit)

====
